---------------------------- MODULE Spec2Model ----------------------------
(***************************************************************************)
(* Model of the textbook RAG backend (src/backend): the token chunker,     *)
(* the heading-aware chunker, the site crawler, the page fetcher, the      *)
(* embedding call and the ingestion run of main.py, the retrieval tool of  *)
(* agent.py, the /chat endpoint with its shared conversation session, its  *)
(* citation extraction and the /profile endpoints of api.py with the       *)
(* session check of dependencies.py, and the precision metric and summary  *)
(* of test_retrieval.py.                                                   *)
(*                                                                         *)
(* Each component has its own variables and its own specification; the     *)
(* variables of the other components stay at their idle values.            *)
(* Text is a sequence of one-character strings; a URL is a sequence of     *)
(* atoms (a scheme such as "http://" followed by characters).              *)
(***************************************************************************)
EXTENDS Integers, Sequences, FiniteSets, TLC

VARIABLES
    \* ---- chunk_text (main.py) ----
    ct_pc,          \* "start" | "loop" | "done" | "error"
    ct_blank,       \* text.strip() is empty
    ct_n,           \* len(tokens) = len(encoder.encode(text))
    ct_max,         \* max_tokens
    ct_ov,          \* overlap_tokens
    ct_start,       \* local variable start
    ct_position,    \* local variable position
    ct_chunks,      \* local list chunks
    ct_error,       \* exception raised by the call, or "none"
    \* ---- discover_urls (main.py) ----
    du_pc,          \* "start" | "sitemap" | "crawl" | "done" | "error"
    du_base,        \* base_url
    du_sitemap,     \* what the sitemap request answered
    du_visited,     \* local set visited
    du_to_visit,    \* local set to_visit
    du_urls,        \* local list urls
    du_fetched,     \* pages requested by the link crawl, in order
    du_result,      \* the returned list
    du_site,        \* the pages of a site fixed in advance, {} when any
                    \* page may answer anything
    \* ---- retrieve_textbook_content / search_qdrant (agent.py) ----
    rt_pc,          \* "start" | "embed" | "search" | "done" | "raised"
    rt_entry,       \* the function the caller called
    rt_clients,     \* the module's cohere_client / qdrant_client are set
    rt_k,           \* the caller's k
    rt_kk,          \* the local k handed to the search
    rt_embedding,   \* "none" | "vector" | "failed"
    rt_search,      \* "none" | "ok" | "failed"
    rt_hits,        \* what search_qdrant returned
    rt_limits,      \* the limit of every query_points request sent
    rt_return,      \* the value returned to the caller, or NoValue
    rt_raised,      \* the message of the exception raised to the caller
    \* ---- extract_citations (api.py) ----
    ec_pc,          \* "start" | "done"
    ec_text,        \* agent_response
    ec_matches,     \* re.findall(pattern, agent_response)
    ec_out,         \* the returned list
    \* ---- POST /chat (api.py) ----
    ch_pc,          \* "idle" | "validate" | "handler" | "agent" | "done"
    ch_message,     \* request.message
    ch_context,     \* request.context, or NoValue
    ch_ran,         \* Runner.run was called for this request
    ch_failure,     \* str(e) of the exception the handler caught
    ch_response,    \* the HTTP response of this request
    ch_session,     \* the turns of the conversation session
    ch_error_ids,   \* every error_id issued so far, in order
    ch_served,      \* requests received so far
    \* ---- POST /profile, GET /profile (api.py, dependencies.py) ----
    pf_pc,          \* "idle" | "auth" | "body" | "handler" | "done"
    pf_method,      \* "POST" | "GET"
    pf_cookie,      \* the better-auth.session_token cookie, or NoValue
    pf_body,        \* the JSON body of a POST
    pf_auth,        \* what the auth service answered for this request
    pf_user,        \* user_id injected by get_current_user, or NoValue
    pf_store,       \* table user_profile: user_id -> row, or NoValue
    pf_before,      \* the table when this request arrived
    pf_db_calls,    \* every statement sent to the database, in order
    pf_response,    \* the HTTP status of this request, 0 before it is sent
    pf_served,      \* requests received so far
    \* ---- calculate_precision_at_k (test_retrieval.py) ----
    pk_pc,          \* "start" | "done"
    pk_retrieved,   \* retrieved_urls
    pk_relevant,    \* relevant_urls
    pk_k,           \* k
    pk_result,      \* the returned precision, as a fraction
    \* ---- main, display_summary_report (test_retrieval.py) ----
    ev_pc,          \* "start" | "loop" | "summary" | "exited"
    ev_n,           \* len(test_queries)
    ev_all_results, \* local list all_results
    ev_precision_metrics,   \* local list precision_metrics
    ev_summary,     \* display_summary_report was called
    ev_exit,        \* the exit code of the process, -1 while it runs
    \* ---- main, generate_embeddings, store_vectors (main.py) ----
    ig_pc,          \* "start" | "discover" | "pages" | "batches" | "done"
                    \* | "aborted"
    ig_run,         \* 1 for the first run over the site, 2 for the second
    ig_site,        \* what each page of the site yields, in URL order
    ig_outcomes,    \* what happened to each batch of the first run
    ig_urls,        \* local list urls
    ig_idx,         \* position of the page loop in urls, from 1
    ig_all_chunks,  \* local list all_chunks
    ig_global_chunk_id,     \* local counter global_chunk_id
    ig_state,       \* local dict pipeline_state
    ig_i,           \* the loop variable i of the batch loop
    ig_embed_calls, \* every call of generate_embeddings, in order
    ig_store,       \* the points of the Qdrant collection
    ig_first,       \* all_chunks and the collection at the end of run 1
    ig_summary,     \* the summary logged at the end, <<>> before
    ig_changed,     \* the second run meets a changed site
    \* ---- chunk_text, whole call with headings (main.py) ----
    hc_pc,          \* "start" | "done" | "error" | "counted"
    hc_text,        \* text
    hc_headings,    \* headings, a list of (level, text)
    hc_max,         \* max_tokens
    hc_ov,          \* overlap_tokens
    hc_chunks,      \* the returned list
    hc_error,       \* exception raised by the call, or "none"
    hc_page,        \* what main counts for the page
    \* ---- fetch_and_parse called by main (main.py) ----
    fp_pc,          \* "off" | "loop" | "request" | "returned" | "raised" | "done"
    fp_n,           \* len(urls)
    fp_idx,         \* index of the page in hand, from 1
    fp_requests,    \* outcomes of the requests of the call in hand
    fp_raised,      \* exception the call raised, or "none"
    fp_calls,       \* the finished calls: their requests and what they raised
    fp_state,       \* pipeline_state
    \* ---- generate_embeddings called by main (main.py) ----
    ge_pc,          \* "off" | "attempt" | "returned" | "raised" | "stored" | "failed"
    ge_size,        \* len(chunks) of the batch
    ge_attempts,    \* what every attempt of the call did
    ge_embeddings,  \* the returned list, as the dimension of each vector
    ge_raised,      \* exception the call raised, or "none"
    ge_stored,      \* number of points of the batch written to the collection
    ge_errors,      \* number of error entries main appended for the batch
    \* ---- conversation session of the /chat endpoint (api.py) ----
    cs_logs,        \* the items of every session, by session id
    cs_req,         \* the requests: position, client, session used, history replayed
    cs_clock        \* counts the session reads and writes

ct_vars == <<ct_pc, ct_blank, ct_n, ct_max, ct_ov, ct_start, ct_position,
             ct_chunks, ct_error>>

du_vars == <<du_pc, du_base, du_sitemap, du_visited, du_to_visit, du_urls,
             du_fetched, du_result, du_site>>

rt_vars == <<rt_pc, rt_entry, rt_clients, rt_k, rt_kk, rt_embedding,
             rt_search, rt_hits, rt_limits, rt_return, rt_raised>>

ec_vars == <<ec_pc, ec_text, ec_matches, ec_out>>

ch_vars == <<ch_pc, ch_message, ch_context, ch_ran, ch_failure, ch_response,
             ch_session, ch_error_ids, ch_served>>

pf_vars == <<pf_pc, pf_method, pf_cookie, pf_body, pf_auth, pf_user,
             pf_store, pf_before, pf_db_calls, pf_response, pf_served>>

pk_vars == <<pk_pc, pk_retrieved, pk_relevant, pk_k, pk_result>>

ev_vars == <<ev_pc, ev_n, ev_all_results, ev_precision_metrics, ev_summary,
             ev_exit>>

ig_vars == <<ig_pc, ig_run, ig_site, ig_outcomes, ig_urls, ig_idx,
             ig_all_chunks, ig_global_chunk_id, ig_state, ig_i,
             ig_embed_calls, ig_store, ig_first, ig_summary, ig_changed>>

hc_vars == <<hc_pc, hc_text, hc_headings, hc_max, hc_ov, hc_chunks, hc_error,
             hc_page>>

fp_vars == <<fp_pc, fp_n, fp_idx, fp_requests, fp_raised, fp_calls,
             fp_state>>

ge_vars == <<ge_pc, ge_size, ge_attempts, ge_embeddings, ge_raised,
             ge_stored, ge_errors>>

cs_vars == <<cs_logs, cs_req, cs_clock>>

vars == <<ct_vars, du_vars, rt_vars,
          ec_vars, ch_vars, pf_vars, pk_vars, ev_vars, ig_vars, hc_vars, fp_vars, cs_vars, ge_vars>>

\* what an action of one component leaves alone
ct_others == <<du_vars, rt_vars, ec_vars, ch_vars, pf_vars, pk_vars,
               ev_vars, ig_vars, hc_vars, fp_vars, cs_vars, ge_vars>>

du_others == <<ct_vars, rt_vars, ec_vars, ch_vars, pf_vars, pk_vars,
               ev_vars, ig_vars, hc_vars, fp_vars, cs_vars, ge_vars>>

rt_others == <<ct_vars, du_vars, ec_vars, ch_vars, pf_vars, pk_vars,
               ev_vars, ig_vars, hc_vars, fp_vars, cs_vars, ge_vars>>

ec_others == <<ct_vars, du_vars, rt_vars, ch_vars, pf_vars, pk_vars,
               ev_vars, ig_vars, hc_vars, fp_vars, cs_vars, ge_vars>>

ch_others == <<ct_vars, du_vars, rt_vars, ec_vars, pf_vars, pk_vars,
               ev_vars, ig_vars, hc_vars, fp_vars, cs_vars, ge_vars>>

pf_others == <<ct_vars, du_vars, rt_vars, ec_vars, ch_vars, pk_vars,
               ev_vars, ig_vars, hc_vars, fp_vars, cs_vars, ge_vars>>

pk_others == <<ct_vars, du_vars, rt_vars, ec_vars, ch_vars, pf_vars,
               ev_vars, ig_vars, hc_vars, fp_vars, cs_vars, ge_vars>>

ev_others == <<ct_vars, du_vars, rt_vars, ec_vars, ch_vars, pf_vars,
               pk_vars, ig_vars, hc_vars, fp_vars, cs_vars, ge_vars>>

ig_others == <<ct_vars, du_vars, rt_vars, ec_vars, ch_vars, pf_vars,
               pk_vars, ev_vars, hc_vars, fp_vars, cs_vars, ge_vars>>

hc_others == <<ct_vars, du_vars, rt_vars, ec_vars, ch_vars, pf_vars,
               pk_vars, ev_vars, ig_vars, fp_vars, cs_vars, ge_vars>>

fp_others == <<ct_vars, du_vars, rt_vars, ec_vars, ch_vars, pf_vars,
               pk_vars, ev_vars, ig_vars, hc_vars, cs_vars, ge_vars>>

cs_others == <<ct_vars, du_vars, rt_vars, ec_vars, ch_vars, pf_vars,
               pk_vars, ev_vars, ig_vars, hc_vars, fp_vars, ge_vars>>

ge_others == <<ct_vars, du_vars, rt_vars, ec_vars, ch_vars, pf_vars,
               pk_vars, ev_vars, ig_vars, hc_vars, fp_vars, cs_vars>>

-----------------------------------------------------------------------------
(* Bounds of the model *)

\* longest page, in tokens, of the input grid
MaxN == 6
\* largest max_tokens of the input grid
MaxTok == 4
\* largest overlap_tokens of the input grid
MaxOv == 4
\* longest path-and-query part of a URL of the site, in characters
MaxTail == 2
\* most links of one page of a site fixed in advance
MaxSiteLinks == 2
\* most pages of the page loop calling fetch_and_parse
MaxFetchPages == 2
\* most /chat requests handled at the same time
MaxChatInFlight == 2
\* most pages of the site of a second run after the site has changed
MaxChangedPages == 1
\* largest batch within the ceiling handed to generate_embeddings
MaxEmbedSize == 2
\* most <loc> entries of a sitemap
MaxLocs == 2
\* most links of one page
MaxLinks == 1
\* how far below 1 and how far above 10 a caller's k goes
KBelow == 3
KAbove == 3
\* points in the vector collection
StoreSize == 2
\* longest text of the exhaustive citation inputs, in characters
MaxTextLen == 6
\* most links of a text built from the link catalogue
MaxTextLinks == 3
\* how many links beyond the citation cap the longest text holds
LinksBeyondCap == 2
\* longest message of the exhaustive /chat inputs, in characters
MaxMsgLen == 1
\* requests the /chat endpoint receives
MaxRequests == 2
\* requests the /profile endpoints receive
MaxProfileRequests == 2
\* longest retrieved_urls and relevant_urls of the precision inputs
MaxRetrieved == 3
MaxRelevant == 2
\* how far above len(retrieved_urls) the k of the precision inputs goes
MaxKBeyond == 1
\* most test queries of the evaluation script
MaxQueries == 5
\* most pages URL discovery returns to the orchestrator
MaxPages == 2
\* longest page body given to chunk_text with headings, in characters
MaxBodyLen == 4
\* most headings of a page
MaxHeadings == 2
\* how far above the batch ceiling a direct call of generate_embeddings goes
MaxOverBatch == 1

-----------------------------------------------------------------------------
(* Generic helpers *)

Min(a, b) == IF a < b THEN a ELSE b

Max(a, b) == IF a > b THEN a ELSE b

CeilDiv(a, b) == (a + b - 1) \div b

\* Python's normalisation of one slice bound i for a sequence of length n:
\* a negative bound counts from the end, and both are clamped to [0, n].
PySliceBound(i, n) == IF i < 0 THEN Max(i + n, 0) ELSE Min(i, n)

\* len(seq[lo:hi]) for a sequence of length n
PySliceLen(lo, hi, n) == Max(PySliceBound(hi, n) - PySliceBound(lo, n), 0)

-----------------------------------------------------------------------------
(* chunk_text, the branch for a page without headings (main.py 184-214) *)

\* The page of the spec's worked example, with the default window.
ExampleInput == [n |-> 1000, max_tokens |-> 512, overlap_tokens |-> 50]

ChunkInputs ==
    [n : 0..MaxN, max_tokens : 0..MaxTok, overlap_tokens : 0..MaxOv]
        \cup {ExampleInput}

\* The while loop is cut after LoopCap iterations: a valid window needs at
\* most n of them, so the cut only bites when the window does not advance.
LoopCap == MaxN + 2

\* end = start + max_tokens
WindowEnd(start, max_tokens) == start + max_tokens

\* start = end - overlap_tokens
NextStartNoOverlap(end, overlap_tokens) == end

NextStart(end, overlap_tokens) == end - overlap_tokens

\* while start < len(tokens)
LoopCondInclusive(start, n) == start <= n

LoopCond(start, n) == start < n

\* The dict appended for the window tokens[start:end]; text_content is the
\* decoded token range [lo, hi) and `start` records the window start.
MakeChunk(start, end, n, position) ==
    [chunk_id         |-> "None",
     heading_context  |-> "No heading",
     start            |-> start,
     lo               |-> PySliceBound(start, n),
     hi               |-> PySliceBound(end, n),
     token_count      |-> PySliceLen(start, end, n),
     position_in_page |-> position]

ChunkInit ==
    /\ ct_pc = "start"
    /\ \E in \in ChunkInputs :
          /\ ct_n = in.n
          /\ ct_max = in.max_tokens
          /\ ct_ov = in.overlap_tokens
    \* a text of n > 0 tokens may still be all whitespace; n = 0 is ""
    /\ ct_blank \in IF ct_n = 0 THEN {TRUE} ELSE BOOLEAN
    /\ ct_start = 0
    /\ ct_position = 0
    /\ ct_chunks = <<>>
    /\ ct_error = "none"

ChunkIdle ==
    /\ ct_pc = "idle"
    /\ ct_blank = FALSE
    /\ ct_n = 0
    /\ ct_max = 0
    /\ ct_ov = 0
    /\ ct_start = 0
    /\ ct_position = 0
    /\ ct_chunks = <<>>
    /\ ct_error = "none"

\* if not text.strip(): raise ValueError
ChunkRaiseEmpty ==
    /\ ct_pc = "start"
    /\ ct_blank
    /\ ct_pc' = "error"
    /\ ct_error' = "ValueError"
    /\ UNCHANGED <<ct_blank, ct_n, ct_max, ct_ov, ct_start, ct_position, ct_chunks>>
    /\ UNCHANGED ct_others

\* tokens = encoder.encode(text); start = 0; position = 0
ChunkEnter ==
    /\ ct_pc = "start"
    /\ ~ct_blank
    /\ ct_pc' = "loop"
    /\ ct_start' = 0
    /\ ct_position' = 0
    /\ UNCHANGED <<ct_blank, ct_n, ct_max, ct_ov, ct_chunks, ct_error>>
    /\ UNCHANGED ct_others

\* one iteration of the while loop
ChunkIterate ==
    /\ ct_pc = "loop"
    /\ LoopCond(ct_start, ct_n)
    /\ Len(ct_chunks) < LoopCap
    /\ LET end == WindowEnd(ct_start, ct_max)
       IN  /\ ct_chunks' = Append(ct_chunks,
                                  MakeChunk(ct_start, end, ct_n, ct_position))
           /\ ct_start' = NextStart(end, ct_ov)
    /\ ct_position' = ct_position + 1
    /\ UNCHANGED <<ct_pc, ct_blank, ct_n, ct_max, ct_ov, ct_error>>
    /\ UNCHANGED ct_others

\* the loop condition fails: return chunks
ChunkReturn ==
    /\ ct_pc = "loop"
    /\ ~LoopCond(ct_start, ct_n)
    /\ ct_pc' = "done"
    /\ UNCHANGED <<ct_blank, ct_n, ct_max, ct_ov, ct_start, ct_position,
                   ct_chunks, ct_error>>
    /\ UNCHANGED ct_others

ChunkNext == ChunkRaiseEmpty \/ ChunkEnter \/ ChunkIterate \/ ChunkReturn

-----------------------------------------------------------------------------
(* Strings: order, prefix, split *)

\* The code point of an atom's first character; the atoms used have
\* pairwise different first characters, so comparing atom by atom is
\* comparing the strings character by character.
AtomCode(a) ==
    CASE a = "#" -> 35
      [] a = "?" -> 63
      [] a = "a" -> 97
      [] a = "ftp://" -> 102
      [] a = "http://" -> 104
      [] a = "x" -> 120
      [] a = "y" -> 121

\* u < v in Python's string order
LexLess(u, v) ==
    \E k \in 1..(Len(v)) :
        /\ \A j \in 1..(k - 1) : j <= Len(u) /\ u[j] = v[j]
        /\ Len(u) >= k - 1
        /\ \/ Len(u) = k - 1
           \/ AtomCode(u[k]) < AtomCode(v[k])

\* u.startswith(p)
StartsWith(u, p) ==
    /\ Len(p) <= Len(u)
    /\ \A j \in 1..Len(p) : u[j] = p[j]

\* u.split(c)[0]: the part of u before the first c
RECURSIVE BeforeFirst(_, _)
BeforeFirst(u, c) ==
    IF u = <<>> \/ Head(u) = c THEN <<>>
    ELSE <<Head(u)>> \o BeforeFirst(Tail(u), c)

\* sorted(S) as a list
RECURSIVE SortSet(_)
SortSet(S) ==
    IF S = {} THEN <<>>
    ELSE LET m == CHOOSE x \in S : \A y \in S : x = y \/ LexLess(x, y)
         IN  <<m>> \o SortSet(S \ {m})

Range(f) == {f[i] : i \in DOMAIN f}

\* all sequences over S of length at most k
SeqsUpTo(S, k) == UNION {[1..m -> S] : m \in 0..k}

\* all subsets of S with at most k elements
RECURSIVE SubsetsUpTo(_, _)
SubsetsUpTo(S, k) ==
    IF k = 0 THEN {{}}
    ELSE LET P == SubsetsUpTo(S, k - 1)
         IN  P \cup {T \cup {x} : T \in P, x \in S}

-----------------------------------------------------------------------------
(* discover_urls (main.py 31-99) *)

TailChars == {"a", "?", "#"}

\* The URLs a page of the site may link to: pages of host x with
\* any path, query or fragment, and one page of another host.
UrlUniverse ==
    {<<"http://", "x">> \o t : t \in SeqsUpTo(TailChars, MaxTail)}
        \cup {<<"http://", "y">>}

\* The URLs a sitemap may list.
LocUniverse ==
    {<<"http://", "x">>, <<"http://", "x", "a">>, <<"http://", "y">>}

BaseUrls ==
    {<<"http://", "x">>, <<"http://", "x", "a">>, <<"http://", "x", "?">>,
     <<"ftp://", "x">>}

\* base_url.startswith(('http://', 'https://'))
HasHttpScheme(u) == u # <<>> /\ Head(u) \in {"http://", "https://"}

\* the <loc> entries kept: url.startswith(base_url)
SitemapUrlsUnfiltered(locs, base) == locs

SitemapUrls(locs, base) == SelectSeq(locs, LAMBDA u : StartsWith(u, base))

\* sorted(set(urls))
SortedUnique(urls) == SortSet(Range(urls))

\* absolute_url.split('#')[0].split('?')[0]
CleanUrl(u) == BeforeFirst(BeforeFirst(u, "#"), "?")

\* the URLs one fetched page adds to to_visit
NewToVisit(links, base, visited) ==
    {CleanUrl(l) : l \in {a \in links : StartsWith(a, base) /\ a \notin visited}}

NoSitemap == [status |-> "none", locs |-> <<>>]

DiscoverInit ==
    /\ du_pc = "start"
    /\ du_base \in BaseUrls
    /\ du_sitemap = NoSitemap
    /\ du_visited = {}
    /\ du_to_visit = {}
    /\ du_urls = <<>>
    /\ du_fetched = <<>>
    /\ du_result = <<>>
    /\ du_site = {}

\* The absolute URLs the pages of a site fixed in advance link to.
SiteLinkUniverse ==
    {<<"http://", "x">>, <<"http://", "x", "a">>, <<"http://", "x", "a", "a">>,
     <<"http://", "x", "?">>, <<"http://", "x", "a", "#">>}

\* the URLs the crawl of such a site can request
SitePages(base) ==
    {base} \cup {CleanUrl(l) : l \in {a \in SiteLinkUniverse : StartsWith(a, base)}}

\* what requests.get answers for one URL: an error, or a page and its links
PageAnswers ==
    {[ok |-> FALSE, links |-> {}]}
        \cup {[ok |-> TRUE, links |-> L] :
                  L \in SubsetsUpTo(SiteLinkUniverse, MaxSiteLinks)}

Sites(base) ==
    {{[url |-> u, ok |-> f[u].ok, links |-> f[u].links] : u \in SitePages(base)} :
        f \in [SitePages(base) -> PageAnswers]}

\* discover_urls is called on a site whose answers are fixed
CrawlSiteInit ==
    /\ du_pc = "start"
    /\ du_base \in BaseUrls
    /\ du_sitemap = NoSitemap
    /\ du_visited = {}
    /\ du_to_visit = {}
    /\ du_urls = <<>>
    /\ du_fetched = <<>>
    /\ du_result = <<>>
    /\ du_site \in Sites(du_base)

DiscoverIdle ==
    /\ du_pc = "idle"
    /\ du_base = <<>>
    /\ du_sitemap = NoSitemap
    /\ du_visited = {}
    /\ du_to_visit = {}
    /\ du_urls = <<>>
    /\ du_fetched = <<>>
    /\ du_result = <<>>
    /\ du_site = {}

\* the pages the site fixes for a URL
PagesAt(url) == {p \in du_site : p.url = url}

\* requests.get(url) or raise_for_status() may raise
MayFail(url) == \A p \in PagesAt(url) : ~p.ok

\* the page may be answered
MayAnswer(url) == \A p \in PagesAt(url) : p.ok

\* the absolute URLs of the <a href> elements the page may hold
PageLinks(url) ==
    IF PagesAt(url) = {} THEN SubsetsUpTo(UrlUniverse, MaxLinks)
    ELSE {p.links : p \in PagesAt(url)}

\* if not base_url.startswith(...): raise ValueError
DiscoverRaiseInvalid ==
    /\ du_pc = "start"
    /\ ~HasHttpScheme(du_base)
    /\ du_pc' = "error"
    /\ UNCHANGED <<du_base, du_sitemap, du_visited, du_to_visit, du_urls,
                   du_fetched, du_result>>
    /\ UNCHANGED du_site
    /\ UNCHANGED du_others

DiscoverValidate ==
    /\ du_pc = "start"
    /\ HasHttpScheme(du_base)
    /\ du_pc' = "sitemap"
    /\ UNCHANGED <<du_base, du_sitemap, du_visited, du_to_visit, du_urls,
                   du_fetched, du_result>>
    /\ UNCHANGED du_site
    /\ UNCHANGED du_others

\* the sitemap request or its parsing raises: fall back to crawling
DiscoverSitemapFails ==
    /\ du_pc = "sitemap"
    /\ \E why \in {"fetch_failed", "parse_failed"} :
          du_sitemap' = [status |-> why, locs |-> <<>>]
    /\ du_pc' = "crawl"
    /\ du_visited' = {}
    /\ du_to_visit' = {du_base}
    /\ du_urls' = <<>>
    /\ UNCHANGED <<du_base, du_fetched, du_result>>
    /\ UNCHANGED du_site
    /\ UNCHANGED du_others

\* the sitemap is read: return its matching entries, or fall back
DiscoverSitemapRead ==
    /\ du_pc = "sitemap"
    /\ \E locs \in SeqsUpTo(LocUniverse, MaxLocs) :
          /\ du_sitemap' = [status |-> "ok", locs |-> locs]
          /\ LET urls == SitemapUrls(locs, du_base)
             IN  IF urls # <<>>
                 THEN /\ du_result' = SortedUnique(urls)
                      /\ du_pc' = "done"
                      /\ UNCHANGED <<du_visited, du_to_visit, du_urls>>
                 ELSE /\ du_pc' = "crawl"
                      /\ du_visited' = {}
                      /\ du_to_visit' = {du_base}
                      /\ du_urls' = <<>>
                      /\ UNCHANGED du_result
    /\ UNCHANGED <<du_base, du_fetched>>
    /\ UNCHANGED du_site
    /\ UNCHANGED du_others

\* url = to_visit.pop(); if url in visited: continue
DiscoverCrawlSkip ==
    /\ du_pc = "crawl"
    /\ \E url \in du_to_visit :
          /\ url \in du_visited
          /\ du_to_visit' = du_to_visit \ {url}
    /\ UNCHANGED <<du_pc, du_base, du_sitemap, du_visited, du_urls,
                   du_fetched, du_result>>
    /\ UNCHANGED du_site
    /\ UNCHANGED du_others

\* the page request raises: the page is skipped
DiscoverCrawlFetchFails ==
    /\ du_pc = "crawl"
    /\ \E url \in du_to_visit :
          /\ url \notin du_visited
          /\ MayFail(url)
          /\ du_to_visit' = du_to_visit \ {url}
          /\ du_visited' = du_visited \cup {url}
          /\ du_fetched' = Append(du_fetched, url)
    /\ UNCHANGED <<du_pc, du_base, du_sitemap, du_urls, du_result>>
    /\ UNCHANGED du_site
    /\ UNCHANGED du_others

\* the page is fetched: it is recorded and its internal links are queued
DiscoverCrawlFetch ==
    /\ du_pc = "crawl"
    /\ \E url \in du_to_visit :
          /\ url \notin du_visited
          /\ MayAnswer(url)
          /\ du_visited' = du_visited \cup {url}
          /\ du_fetched' = Append(du_fetched, url)
          /\ du_urls' = Append(du_urls, url)
          /\ \E links \in PageLinks(url) :
                du_to_visit' = (du_to_visit \ {url})
                                  \cup NewToVisit(links, du_base, du_visited')
    /\ UNCHANGED <<du_pc, du_base, du_sitemap, du_result>>
    /\ UNCHANGED du_site
    /\ UNCHANGED du_others

\* to_visit is empty: return sorted(set(urls))
DiscoverCrawlReturn ==
    /\ du_pc = "crawl"
    /\ du_to_visit = {}
    /\ du_result' = SortedUnique(du_urls)
    /\ du_pc' = "done"
    /\ UNCHANGED <<du_base, du_sitemap, du_visited, du_to_visit, du_urls,
                   du_fetched>>
    /\ UNCHANGED du_site
    /\ UNCHANGED du_others

DiscoverNext ==
    \/ DiscoverRaiseInvalid
    \/ DiscoverValidate
    \/ DiscoverSitemapFails
    \/ DiscoverSitemapRead
    \/ DiscoverCrawlSkip
    \/ DiscoverCrawlFetchFails
    \/ DiscoverCrawlFetch
    \/ DiscoverCrawlReturn

-----------------------------------------------------------------------------
(* retrieve_textbook_content and search_qdrant (agent.py 161-258) *)

\* k = max(1, min(k, 10))
MinK == 1

MaxK == 10

ClampK(k) == Max(MinK, Min(k, MaxK))

CallerKs == (MinK - KBelow)..(MaxK + KAbove)

NoValue == "<none>"

EmbedFailedMsg == "Cohere embedding generation failed"

SearchFailedMsg == "Qdrant search failed"

\* the list search_qdrant builds from n returned points: rank 1..n
SearchResults(n) == [i \in 1..n |-> [rank |-> i, point |-> i]]

\* except Exception as e: return {"results": [], "error": ...}
RetrievePropagates(msg) ==
    [pc |-> "raised", ret |-> NoValue, raised |-> msg]

RetrieveExcept(msg) ==
    [pc     |-> "done",
     ret    |-> [results |-> <<>>, error |-> <<"Retrieval failed: ", msg>>],
     raised |-> NoValue]

\* how an exception raised below the entry function reaches the caller:
\* retrieve_textbook_content catches it, search_qdrant lets it through
OnException(entry, msg) ==
    IF entry = "retrieve_textbook_content"
    THEN RetrieveExcept(msg)
    ELSE [pc |-> "raised", ret |-> NoValue, raised |-> msg]

RetrieveInit ==
    /\ rt_pc = "start"
    /\ rt_entry \in {"retrieve_textbook_content", "search_qdrant"}
    /\ rt_k \in CallerKs
    \* a caller of search_qdrant hands in its own client
    /\ rt_clients \in IF rt_entry = "search_qdrant" THEN {TRUE} ELSE BOOLEAN
    /\ rt_kk = 0
    /\ rt_embedding = "none"
    /\ rt_search = "none"
    /\ rt_hits = <<>>
    /\ rt_limits = <<>>
    /\ rt_return = NoValue
    /\ rt_raised = NoValue

RetrieveIdle ==
    /\ rt_pc = "idle"
    /\ rt_entry = "none"
    /\ rt_k = 0
    /\ rt_clients = FALSE
    /\ rt_kk = 0
    /\ rt_embedding = "none"
    /\ rt_search = "none"
    /\ rt_hits = <<>>
    /\ rt_limits = <<>>
    /\ rt_return = NoValue
    /\ rt_raised = NoValue

\* retrieve_textbook_content: k = max(1, min(k, 10))
RetrieveClamp ==
    /\ rt_pc = "start"
    /\ rt_entry = "retrieve_textbook_content"
    /\ rt_kk' = ClampK(rt_k)
    /\ rt_pc' = "embed"
    /\ UNCHANGED <<rt_entry, rt_clients, rt_k, rt_embedding, rt_search,
                   rt_hits, rt_limits, rt_return, rt_raised>>
    /\ UNCHANGED rt_others

\* search_qdrant called by another caller: k is the caller's
SearchDirect ==
    /\ rt_pc = "start"
    /\ rt_entry = "search_qdrant"
    /\ rt_kk' = rt_k
    /\ rt_embedding' = "vector"
    /\ rt_pc' = "search"
    /\ UNCHANGED <<rt_entry, rt_clients, rt_k, rt_search, rt_hits,
                   rt_limits, rt_return, rt_raised>>
    /\ UNCHANGED rt_others

\* generate_query_embedding returns the vector
EmbedQuery ==
    /\ rt_pc = "embed"
    /\ rt_clients
    /\ rt_embedding' = "vector"
    /\ rt_pc' = "search"
    /\ UNCHANGED <<rt_entry, rt_clients, rt_k, rt_kk, rt_search, rt_hits,
                   rt_limits, rt_return, rt_raised>>
    /\ UNCHANGED rt_others

\* generate_query_embedding raises: the client is None (always), or the
\* embedding request fails
EmbedQueryFails ==
    /\ rt_pc = "embed"
    /\ LET out == OnException(rt_entry, EmbedFailedMsg)
       IN  /\ rt_pc' = out.pc
           /\ rt_return' = out.ret
           /\ rt_raised' = out.raised
    /\ rt_embedding' = "failed"
    /\ UNCHANGED <<rt_entry, rt_clients, rt_k, rt_kk, rt_search, rt_hits,
                   rt_limits>>
    /\ UNCHANGED rt_others

\* search_qdrant: query_points(limit=k) answers with at most limit points
SearchQdrant ==
    /\ rt_pc = "search"
    /\ rt_limits' = Append(rt_limits, rt_kk)
    /\ \E n \in 0..Min(Max(rt_kk, 0), StoreSize) :
          /\ rt_hits' = SearchResults(n)
          /\ rt_return' = IF rt_entry = "retrieve_textbook_content"
                          THEN [results |-> SearchResults(n), error |-> "None"]
                          ELSE SearchResults(n)
    /\ rt_search' = "ok"
    /\ rt_pc' = "done"
    /\ UNCHANGED <<rt_entry, rt_clients, rt_k, rt_kk, rt_embedding, rt_raised>>
    /\ UNCHANGED rt_others

\* search_qdrant: the request is sent and fails
SearchQdrantFails ==
    /\ rt_pc = "search"
    /\ rt_limits' = Append(rt_limits, rt_kk)
    /\ LET out == OnException(rt_entry, SearchFailedMsg)
       IN  /\ rt_pc' = out.pc
           /\ rt_return' = out.ret
           /\ rt_raised' = out.raised
    /\ rt_search' = "failed"
    /\ UNCHANGED <<rt_entry, rt_clients, rt_k, rt_kk, rt_embedding, rt_hits>>
    /\ UNCHANGED rt_others

RetrieveNext ==
    \/ RetrieveClamp
    \/ SearchDirect
    \/ EmbedQuery
    \/ EmbedQueryFails
    \/ SearchQdrant
    \/ SearchQdrantFails

-----------------------------------------------------------------------------
(* extract_citations (api.py 459-485) *)

\* the smallest index k >= i of t with t[k] = c, or 0
IndexFrom(t, c, i) ==
    LET hits == {k \in i..Len(t) : t[k] = c}
    IN  IF hits = {} THEN 0
        ELSE CHOOSE k \in hits : \A h \in hits : k <= h

NoMatch == [ok |-> FALSE, title |-> <<>>, url |-> <<>>, end |-> 0]

\* The longest run of characters other than `stop` starting at t[from]:
\* the index of the character that ends it, or 0 when the text ends first.
\* [^\]]+ and [^\)]+ stop at the first "]" and the first ")".
GroupEnd(t, stop, from) == IndexFrom(t, stop, from)

\* the match of \[([^\]]+)\]\(([^\)]+)\) that starts at t[i], if any
MatchAt(t, i) ==
    IF t[i] # "[" THEN NoMatch
    ELSE LET j == GroupEnd(t, "]", i + 1)
         IN  IF j = 0 \/ j = i + 1 THEN NoMatch
             ELSE IF j + 1 > Len(t) \/ t[j + 1] # "(" THEN NoMatch
             ELSE LET m == GroupEnd(t, ")", j + 2)
                  IN  IF m = 0 \/ m = j + 2 THEN NoMatch
                      ELSE [ok    |-> TRUE,
                            title |-> SubSeq(t, i + 1, j - 1),
                            url   |-> SubSeq(t, j + 2, m - 1),
                            end   |-> m]

\* re.findall: the leftmost matches, scanning on after each one
RECURSIVE FindAllFrom(_, _)
FindAllFrom(t, i) ==
    IF i > Len(t) THEN <<>>
    ELSE LET m == MatchAt(t, i)
         IN  IF m.ok
             THEN <<[title |-> m.title, url |-> m.url]>>
                      \o FindAllFrom(t, m.end + 1)
             ELSE FindAllFrom(t, i + 1)

FindAll(t) == FindAllFrom(t, 1)

\* what seen_urls remembers of a match
SeenKeyTitle(match) == match.title

SeenKey(match) == match.url

\* for title, url in matches: if url not in seen_urls: append, add
RECURSIVE DedupLoop(_, _, _, _)
DedupLoop(matches, i, seen_urls, citations) ==
    IF i > Len(matches) THEN citations
    ELSE IF SeenKey(matches[i]) \notin seen_urls
         THEN DedupLoop(matches, i + 1,
                        seen_urls \cup {SeenKey(matches[i])},
                        Append(citations, matches[i]))
         ELSE DedupLoop(matches, i + 1, seen_urls, citations)

MaxCitations == 10

\* citations[:10]
FirstCitations(citations) ==
    SubSeq(citations, 1, Min(Len(citations), MaxCitations))

CitationsOf(matches) == FirstCitations(DedupLoop(matches, 1, {}, <<>>))

extract_citations(agent_response) == CitationsOf(FindAll(agent_response))

RECURSIVE Concat(_)
Concat(seqs) == IF seqs = <<>> THEN <<>> ELSE Head(seqs) \o Concat(Tail(seqs))

MarkdownLink(title, url) == <<"[">> \o title \o <<"]", "(">> \o url \o <<")">>

\* the text of the spec's example
ExampleText ==
    <<"A", " ", "[", "I", "n", "t", "r", "o", "]", "(", "h", "t", "t",
          "p", "s", ":", "/", "/", "x", "/", "a", ")", " ", "B", " ",
          "[", "I", "n", "t", "r", "o", "]", "(", "h", "t", "t", "p",
          "s", ":", "/", "/", "x", "/", "a", ")", " ", "C", " ", "[",
          "D", "e", "e", "p", " ", "D", "i", "v", "e", "]", "(", "h",
          "t", "t", "p", "s", ":", "/", "/", "x", "/", "b", ")">>

CiteChars == {"[", "]", "(", ")", "a"}

\* pieces a generated answer is made of: links that share a title or a
\* URL, and plain text
LinkCatalogue ==
    {MarkdownLink(<<"a">>, <<"u">>), MarkdownLink(<<"b">>, <<"u">>),
     MarkdownLink(<<"a">>, <<"v">>), <<" ", "x", " ">>}

\* k links to k different URLs (u, uu, uuu, ...), each given twice
ManyLinks(k) ==
    Concat([i \in 1..(2 * k) |->
              MarkdownLink(<<"t">>, [j \in 1..((i + 1) \div 2) |-> "u"])])

CiteTexts ==
    SeqsUpTo(CiteChars, MaxTextLen)
        \cup {Concat(q) : q \in SeqsUpTo(LinkCatalogue, MaxTextLinks)}
        \cup {ManyLinks(k) : k \in 0..(MaxCitations + LinksBeyondCap)}
        \cup {ExampleText}

CiteInit ==
    /\ ec_pc = "start"
    /\ ec_text \in CiteTexts
    /\ ec_matches = <<>>
    /\ ec_out = <<>>

CiteIdle ==
    /\ ec_pc = "idle"
    /\ ec_text = <<>>
    /\ ec_matches = <<>>
    /\ ec_out = <<>>

\* the whole call
ExtractCitations ==
    /\ ec_pc = "start"
    /\ ec_matches' = FindAll(ec_text)
    /\ ec_out' = CitationsOf(ec_matches')
    /\ ec_pc' = "done"
    /\ UNCHANGED ec_text
    /\ UNCHANGED ec_others

CiteNext == ExtractCitations

-----------------------------------------------------------------------------
(* Text helpers of the /chat endpoint *)

Whitespace == {" ", "\n", "\t"}

\* str.lstrip()
RECURSIVE LStrip(_)
LStrip(t) ==
    IF t # <<>> /\ Head(t) \in Whitespace THEN LStrip(Tail(t)) ELSE t

\* str.rstrip()
RECURSIVE RStrip(_)
RStrip(t) ==
    IF t # <<>> /\ t[Len(t)] \in Whitespace
    THEN RStrip(SubSeq(t, 1, Len(t) - 1))
    ELSE t

\* str.strip()
Strip(t) == RStrip(LStrip(t))

UpperLetters ==
    <<"A", "B", "C", "D", "E", "F", "G", "H", "I", "J", "K", "L",
      "M", "N", "O", "P", "Q", "R", "S", "T", "U", "V", "W", "X",
      "Y", "Z">>

LowerLetters ==
    <<"a", "b", "c", "d", "e", "f", "g", "h", "i", "j", "k", "l",
      "m", "n", "o", "p", "q", "r", "s", "t", "u", "v", "w", "x",
      "y", "z">>

\* one character of str.lower()
LowerCharIdentity(c) == c

LowerChar(c) ==
    IF \E i \in 1..Len(UpperLetters) : UpperLetters[i] = c
    THEN LowerLetters[CHOOSE i \in 1..Len(UpperLetters) : UpperLetters[i] = c]
    ELSE c

\* str.lower()
Lower(t) == [i \in 1..Len(t) |-> LowerChar(t[i])]

\* needle in t
Contains(t, needle) ==
    \E i \in 0..(Len(t) - Len(needle)) :
        \A j \in 1..Len(needle) : t[i + j] = needle[j]

-----------------------------------------------------------------------------
(* POST /chat: ChatRequest, chat_endpoint (api.py 49-63, 230-319) *)

MinMessageLen == 1

MaxMessageLen == 2000

MaxContextLen == 5000

MinResponseLen == 1

MaxResponseLen == 10000

\* the keywords of a temporary failure
Keywords ==
    {<<"q", "d", "r", "a", "n", "t">>,
     <<"c", "o", "h", "e", "r", "e">>,
     <<"c", "o", "n", "n", "e", "c", "t", "i", "o", "n">>,
     <<"t", "i", "m", "e", "o", "u", "t">>,
     <<"u", "n", "a", "v", "a", "i", "l", "a", "b", "l", "e">>}

\* any(keyword in error_str for keyword in [...]) with error_str = str(e).lower()
IsRetrievalFailure(msg) == \E kw \in Keywords : Contains(Lower(msg), kw)

\* the fields of ChatRequest hold: message 1..2000 characters, context absent
\* or at most 5000
SchemaAccepts(message, context) ==
    /\ Len(message) >= MinMessageLen
    /\ Len(message) <= MaxMessageLen
    /\ context = NoValue \/ Len(context) <= MaxContextLen

\* not request.message or not request.message.strip()
IsBlank(message) == message = <<>> \/ Strip(message) = <<>>

\* query = message.strip(), plus "\n\nContext: " + context.strip() when a
\* non-empty context is given
ContextLabel ==
    <<"\n", "\n", "C", "o", "n", "t", "e", "x", "t", ":", " ">>

BuildQuery(message, context) ==
    IF context # NoValue /\ context # <<>>
    THEN Strip(message) \o ContextLabel \o Strip(context)
    ELSE Strip(message)

\* the response FastAPI gives a request body that fails the model's fields
SchemaErrorResponse ==
    [status |-> 422, error |-> NoValue, retryable |-> NoValue,
     error_id |-> 0, sources |-> <<>>]

BlankMessageResponse ==
    [status |-> 400, error |-> "validation_error", retryable |-> FALSE,
     error_id |-> 0, sources |-> <<>>]

OkResponse(agent_response) ==
    [status |-> 200, error |-> NoValue, retryable |-> NoValue,
     error_id |-> 0, sources |-> extract_citations(agent_response)]

\* the except branch: 503 for a retrieval failure, 500 otherwise
FailureResponse(msg, error_id) ==
    IF IsRetrievalFailure(msg)
    THEN [status |-> 503, error |-> "service_unavailable",
          retryable |-> TRUE, error_id |-> error_id, sources |-> <<>>]
    ELSE [status |-> 500, error |-> "server_error", retryable |-> FALSE,
          error_id |-> error_id, sources |-> <<>>]

\* str(uuid.uuid4()): an id no earlier call returned (0 stands for None)
FreshId(issued) == Len(issued) + 1

LongMessage == [i \in 1..(MaxMessageLen + 1) |-> "a"]

ChatMessages == SeqsUpTo({" ", "a"}, MaxMsgLen) \cup {LongMessage}

ChatContexts == {NoValue, <<>>, <<"c", " ">>}

\* what the agent run may answer
AgentOutputs ==
    {<<>>,
     <<"o", "k">>,
     MarkdownLink(<<"a">>, <<"u">>) \o MarkdownLink(<<"b">>, <<"u">>)}

\* str(e) of what the agent run may raise
AgentFailures ==
    {<<>>,
     <<"Q", "d", "r", "a", "n", "t", " ", "d", "o", "w", "n">>,
     <<"C", "O", "H", "E", "R", "E", " ", "4", "2", "9">>,
     <<"C", "o", "n", "n", "e", "c", "t", "i", "o", "n", " ", "r",
       "e", "s", "e", "t">>,
     <<"r", "e", "a", "d", " ", "t", "i", "m", "e", "o", "u", "t">>,
     <<"t", "i", "m", "e", " ", "o", "u", "t">>,
     <<"S", "e", "r", "v", "i", "c", "e", " ", "U", "n", "a", "v",
       "a", "i", "l", "a", "b", "l", "e">>,
     <<"b", "o", "o", "m">>,
     <<"q", "d", "r", "a", "n", " ", "t">>,
     <<"M", "a", "x", " ", "t", "u", "r", "n", "s", " ", "e", "x",
       "c", "e", "e", "d", "e", "d">>}

\* str(e) of the ValidationError of ChatResponse(response="")
EmptyResponseError ==
    <<"1", " ", "v", "a", "l", "i", "d", "a", "t", "i", "o", "n",
      " ", "e", "r", "r", "o", "r", " ", "f", "o", "r", " ", "C",
      "h", "a", "t", "R", "e", "s", "p", "o", "n", "s", "e", "\n",
      "r", "e", "s", "p", "o", "n", "s", "e", "\n", " ", " ", "S",
      "t", "r", "i", "n", "g", " ", "s", "h", "o", "u", "l", "d",
      " ", "h", "a", "v", "e", " ", "a", "t", " ", "l", "e", "a",
      "s", "t", " ", "1", " ", "c", "h", "a", "r", "a", "c", "t",
      "e", "r">>

NoResponse == [status |-> 0, error |-> NoValue, retryable |-> NoValue,
               error_id |-> 0, sources |-> <<>>]

ChatInit ==
    /\ ch_pc = "idle"
    /\ ch_message = <<>>
    /\ ch_context = NoValue
    /\ ch_ran = FALSE
    /\ ch_failure = NoValue
    /\ ch_response = NoResponse
    /\ ch_session = <<>>
    /\ ch_error_ids = <<>>
    /\ ch_served = 0

\* a request arrives
ChatReceive ==
    /\ ch_pc \in {"idle", "done"}
    /\ ch_served < MaxRequests
    /\ ch_message' \in ChatMessages
    /\ ch_context' \in ChatContexts
    /\ ch_pc' = "validate"
    /\ ch_ran' = FALSE
    /\ ch_failure' = NoValue
    /\ ch_response' = NoResponse
    /\ ch_served' = ch_served + 1
    /\ UNCHANGED <<ch_session, ch_error_ids>>
    /\ UNCHANGED ch_others

\* the body fails the fields of ChatRequest: the handler is not entered
ChatRejectSchema ==
    /\ ch_pc = "validate"
    /\ ~SchemaAccepts(ch_message, ch_context)
    /\ ch_response' = SchemaErrorResponse
    /\ ch_pc' = "done"
    /\ UNCHANGED <<ch_message, ch_context, ch_ran, ch_failure, ch_session,
                   ch_error_ids, ch_served>>
    /\ UNCHANGED ch_others

ChatAcceptSchema ==
    /\ ch_pc = "validate"
    /\ SchemaAccepts(ch_message, ch_context)
    /\ ch_pc' = "handler"
    /\ UNCHANGED <<ch_message, ch_context, ch_ran, ch_failure, ch_response,
                   ch_session, ch_error_ids, ch_served>>
    /\ UNCHANGED ch_others

\* the handler's own check: HTTP 400
ChatRejectBlank ==
    /\ ch_pc = "handler"
    /\ IsBlank(ch_message)
    /\ ch_response' = BlankMessageResponse
    /\ ch_pc' = "done"
    /\ UNCHANGED <<ch_message, ch_context, ch_ran, ch_failure, ch_session,
                   ch_error_ids, ch_served>>
    /\ UNCHANGED ch_others

\* result = await Runner.run(agent_instance, query, session=session)
ChatRunAgent ==
    /\ ch_pc = "handler"
    /\ ~IsBlank(ch_message)
    /\ ch_ran' = TRUE
    /\ ch_pc' = "agent"
    /\ UNCHANGED <<ch_message, ch_context, ch_failure, ch_response,
                   ch_session, ch_error_ids, ch_served>>
    /\ UNCHANGED ch_others

\* the run returns; the citations are extracted and the response is built
ChatAgentReturns ==
    /\ ch_pc = "agent"
    /\ \E out \in AgentOutputs :
          /\ ch_session' = Append(ch_session,
                                  [query |-> BuildQuery(ch_message, ch_context),
                                   answer |-> out])
          /\ IF Len(out) >= MinResponseLen /\ Len(out) <= MaxResponseLen
             THEN /\ ch_response' = OkResponse(out)
                  /\ UNCHANGED <<ch_failure, ch_error_ids>>
             ELSE /\ ch_failure' = EmptyResponseError
                  /\ ch_response' =
                        FailureResponse(EmptyResponseError, FreshId(ch_error_ids))
                  /\ ch_error_ids' = Append(ch_error_ids, FreshId(ch_error_ids))
    /\ ch_pc' = "done"
    /\ UNCHANGED <<ch_message, ch_context, ch_ran, ch_served>>
    /\ UNCHANGED ch_others

\* the run raises: the except branch answers. Whether the run had saved
\* the user's turn before it raised is the agent runtime's affair.
ChatAgentRaises ==
    /\ ch_pc = "agent"
    /\ \E msg \in AgentFailures :
          /\ ch_failure' = msg
          /\ ch_response' = FailureResponse(msg, FreshId(ch_error_ids))
    /\ \E saved \in BOOLEAN :
          ch_session' =
              IF saved
              THEN Append(ch_session,
                          [query |-> BuildQuery(ch_message, ch_context),
                           answer |-> NoValue])
              ELSE ch_session
    /\ ch_error_ids' = Append(ch_error_ids, FreshId(ch_error_ids))
    /\ ch_pc' = "done"
    /\ UNCHANGED <<ch_message, ch_context, ch_ran, ch_served>>
    /\ UNCHANGED ch_others

ChatIdle ==
    /\ ch_pc = "off"
    /\ ch_message = <<>>
    /\ ch_context = NoValue
    /\ ch_ran = FALSE
    /\ ch_failure = NoValue
    /\ ch_response = NoResponse
    /\ ch_session = <<>>
    /\ ch_error_ids = <<>>
    /\ ch_served = 0

ChatNext ==
    \/ ChatReceive
    \/ ChatRejectSchema
    \/ ChatAcceptSchema
    \/ ChatRejectBlank
    \/ ChatRunAgent
    \/ ChatAgentReturns
    \/ ChatAgentRaises

-----------------------------------------------------------------------------
(* get_current_user (dependencies.py 9-51); ProfileRequest, create_profile *)
(* and get_profile (api.py 94-109, 320-456)                                *)

Users == {"u1", "u2"}

\* request.cookies.get("better-auth.session_token")
SessionCookies == {NoValue, "", "tok"}

\* `not session_token`
CookieMissing(cookie) == cookie \in {NoValue, ""}

NotCalled == [kind |-> "not_called", status |-> 0, body |-> "none",
              id |-> NoValue]

\* What the auth service does with GET /api/auth/get-session: the request
\* fails (httpx.RequestError), or it answers with a status and a body.
\* Bodies: text that is no JSON, null, {}, an object without "user",
\* {"user": null}, {"user": {}} and {"user": {"id": u}}.
AuthAnswers ==
    {[kind |-> "unreachable", status |-> 0, body |-> "none", id |-> NoValue]}
    \cup {[kind |-> "answer", status |-> st, body |-> "null", id |-> NoValue] :
             st \in {401, 500}}
    \cup {[kind |-> "answer", status |-> 200, body |-> b, id |-> NoValue] :
             b \in {"not_json", "null", "empty_object", "no_user_key",
                    "user_null", "user_without_id"}}
    \cup {[kind |-> "answer", status |-> 200, body |-> "user", id |-> u] :
             u \in Users}

\* response.json() raises
JsonFails(body) == body = "not_json"

\* `not session_data`
SessionFalsy(body) == body \in {"null", "empty_object"}

\* `"user" in session_data`
HasUserKey(body) == body \in {"user_null", "user_without_id", "user"}

\* session_data["user"]["id"] raises TypeError or KeyError
UserIdFails(body) == body \in {"user_null", "user_without_id"}

\* get_current_user after the cookie was found: the status of the error the
\* client receives (0 for none) and the user id returned.  An HTTPException
\* keeps its status; only httpx.RequestError is caught and becomes 503; any
\* other exception leaves the dependency and is answered with 500.
CurrentUser(ans) ==
    IF ans.kind = "unreachable" THEN [status |-> 503, user |-> NoValue]
    ELSE IF ans.status # 200 THEN [status |-> 401, user |-> NoValue]
    ELSE IF JsonFails(ans.body) THEN [status |-> 500, user |-> NoValue]
    ELSE IF SessionFalsy(ans.body) \/ ~HasUserKey(ans.body)
         THEN [status |-> 401, user |-> NoValue]
    ELSE IF UserIdFails(ans.body) THEN [status |-> 500, user |-> NoValue]
    ELSE [status |-> 0, user |-> ans.id]

MaxHardware == 20

NoRow == [present |-> FALSE, programming_experience |-> "none",
          hardware_access |-> 0, learning_goal |-> "none"]

\* the bodies of POST /profile; hardware_access is given by its length
ProfileBodies ==
    [present : {TRUE},
     programming_experience : {"beginner", "advanced", "expert"},
     hardware_access : {0, MaxHardware, MaxHardware + 1},
     learning_goal : {"theory", "fun"}]

\* ProfileRequest validation
ProfileAccepts(body) ==
    /\ body.programming_experience \in {"beginner", "intermediate", "advanced"}
    /\ body.hardware_access <= MaxHardware
    /\ body.learning_goal \in {"theory", "implementation", "both"}

\* INSERT ... ON CONFLICT (user_id) DO UPDATE
Upsert(store, user, row) == [store EXCEPT ![user] = row]

DbCall(op) ==
    [op |-> op, user |-> pf_user, request |-> pf_served,
     cookie |-> pf_cookie, auth |-> pf_auth]

ProfileInit ==
    /\ pf_pc = "idle"
    /\ pf_method = "GET"
    /\ pf_cookie = NoValue
    /\ pf_body = NoRow
    /\ pf_auth = NotCalled
    /\ pf_user = NoValue
    /\ pf_store \in {[u \in Users |-> NoRow],
                     [u \in Users |-> IF u = "u1"
                                      THEN [present |-> TRUE,
                                            programming_experience |-> "beginner",
                                            hardware_access |-> 0,
                                            learning_goal |-> "theory"]
                                      ELSE NoRow]}
    /\ pf_before = pf_store
    /\ pf_db_calls = <<>>
    /\ pf_response = 0
    /\ pf_served = 0

ProfileIdle ==
    /\ pf_pc = "off"
    /\ pf_method = "GET"
    /\ pf_cookie = NoValue
    /\ pf_body = NoRow
    /\ pf_auth = NotCalled
    /\ pf_user = NoValue
    /\ pf_store = [u \in Users |-> NoRow]
    /\ pf_before = pf_store
    /\ pf_db_calls = <<>>
    /\ pf_response = 0
    /\ pf_served = 0

\* a request arrives
ProfileReceive ==
    /\ pf_pc \in {"idle", "done"}
    /\ pf_served < MaxProfileRequests
    /\ \E method \in {"POST", "GET"}, cookie \in SessionCookies :
          /\ pf_method' = method
          /\ pf_cookie' = cookie
          /\ IF method = "POST"
             THEN pf_body' \in ProfileBodies
             ELSE pf_body' = NoRow
    /\ pf_pc' = "auth"
    /\ pf_auth' = NotCalled
    /\ pf_user' = NoValue
    /\ pf_before' = pf_store
    /\ pf_response' = 0
    /\ pf_served' = pf_served + 1
    /\ UNCHANGED <<pf_store, pf_db_calls>>
    /\ UNCHANGED pf_others

\* get_current_user: if not session_token: raise HTTPException(401)
ProfileNoCookie ==
    /\ pf_pc = "auth"
    /\ CookieMissing(pf_cookie)
    /\ pf_response' = 401
    /\ pf_pc' = "done"
    /\ UNCHANGED <<pf_method, pf_cookie, pf_body, pf_auth, pf_user, pf_store,
                   pf_before, pf_db_calls, pf_served>>
    /\ UNCHANGED pf_others

\* get_current_user: the session is sent to the auth service
ProfileAuthenticate ==
    /\ pf_pc = "auth"
    /\ ~CookieMissing(pf_cookie)
    /\ \E ans \in AuthAnswers :
          /\ pf_auth' = ans
          /\ LET r == CurrentUser(ans)
             IN  IF r.status # 0
                 THEN /\ pf_response' = r.status
                      /\ pf_pc' = "done"
                      /\ UNCHANGED pf_user
                 ELSE /\ pf_user' = r.user
                      /\ pf_pc' = IF pf_method = "POST" THEN "body"
                                  ELSE "handler"
                      /\ UNCHANGED pf_response
    /\ UNCHANGED <<pf_method, pf_cookie, pf_body, pf_store, pf_before,
                   pf_db_calls, pf_served>>
    /\ UNCHANGED pf_others

\* the body of a POST fails ProfileRequest: 422
ProfileRejectBody ==
    /\ pf_pc = "body"
    /\ ~ProfileAccepts(pf_body)
    /\ pf_response' = 422
    /\ pf_pc' = "done"
    /\ UNCHANGED <<pf_method, pf_cookie, pf_body, pf_auth, pf_user, pf_store,
                   pf_before, pf_db_calls, pf_served>>
    /\ UNCHANGED pf_others

ProfileAcceptBody ==
    /\ pf_pc = "body"
    /\ ProfileAccepts(pf_body)
    /\ pf_pc' = "handler"
    /\ UNCHANGED <<pf_method, pf_cookie, pf_body, pf_auth, pf_user, pf_store,
                   pf_before, pf_db_calls, pf_response, pf_served>>
    /\ UNCHANGED pf_others

\* create_profile: the upsert succeeds (201) or raises (500)
ProfileSave ==
    /\ pf_pc = "handler"
    /\ pf_method = "POST"
    /\ pf_db_calls' = Append(pf_db_calls, DbCall("execute"))
    /\ \E ok \in BOOLEAN :
          IF ok
          THEN /\ pf_store' = Upsert(pf_store, pf_user, pf_body)
               /\ pf_response' = 201
          ELSE /\ pf_response' = 500
               /\ UNCHANGED pf_store
    /\ pf_pc' = "done"
    /\ UNCHANGED <<pf_method, pf_cookie, pf_body, pf_auth, pf_user, pf_before,
                   pf_served>>
    /\ UNCHANGED pf_others

\* get_profile: the row is found (200), is absent (404) or the query
\* raises (500)
ProfileFetch ==
    /\ pf_pc = "handler"
    /\ pf_method = "GET"
    /\ pf_db_calls' = Append(pf_db_calls, DbCall("fetch_one"))
    /\ \E ok \in BOOLEAN :
          pf_response' = IF ~ok THEN 500
                         ELSE IF pf_store[pf_user].present THEN 200
                         ELSE 404
    /\ pf_pc' = "done"
    /\ UNCHANGED <<pf_method, pf_cookie, pf_body, pf_auth, pf_user, pf_store,
                   pf_before, pf_served>>
    /\ UNCHANGED pf_others

ProfileNext ==
    \/ ProfileReceive
    \/ ProfileNoCookie
    \/ ProfileAuthenticate
    \/ ProfileRejectBody
    \/ ProfileAcceptBody
    \/ ProfileSave
    \/ ProfileFetch

-----------------------------------------------------------------------------
(* calculate_precision_at_k (test_retrieval.py 238-256) *)

PrecisionUrls == {"a", "b", "c"}

\* retrieved_urls[:k]
TopK(retrieved, k) == SubSeq(retrieved, 1, PySliceBound(k, Len(retrieved)))

\* len(set(retrieved_urls[:k]) & set(relevant_urls)) / k if k > 0 else 0.0,
\* as the fraction num / den
PrecisionAtK(retrieved, relevant, k) ==
    LET relevant_in_topk == Range(TopK(retrieved, k)) \cap Range(relevant)
    IN  IF k > 0 THEN [num |-> Cardinality(relevant_in_topk), den |-> k]
        ELSE [num |-> 0, den |-> 1]

NoFraction == [num |-> 0, den |-> 0]

PrecisionInit ==
    /\ pk_pc = "start"
    /\ pk_retrieved \in SeqsUpTo(PrecisionUrls, MaxRetrieved)
    /\ pk_relevant \in SeqsUpTo(PrecisionUrls, MaxRelevant)
    /\ pk_k \in -1..(MaxRetrieved + MaxKBeyond)
    /\ pk_result = NoFraction

PrecisionIdle ==
    /\ pk_pc = "off"
    /\ pk_retrieved = <<>>
    /\ pk_relevant = <<>>
    /\ pk_k = 0
    /\ pk_result = NoFraction

CalculatePrecision ==
    /\ pk_pc = "start"
    /\ pk_result' = PrecisionAtK(pk_retrieved, pk_relevant, pk_k)
    /\ pk_pc' = "done"
    /\ UNCHANGED <<pk_retrieved, pk_relevant, pk_k>>
    /\ UNCHANGED pk_others

PrecisionNext == CalculatePrecision

-----------------------------------------------------------------------------
(* The evaluation script: main and display_summary_report                  *)
(* (test_retrieval.py 259-324, 331-532).  A similarity score is given in   *)
(* hundredths.                                                             *)

\* score >= 0.5
ScoreThreshold == 50
\* relevance_percentage >= 80.0
RelevanceTarget == 80
\* avg_p3 >= 0.70
PrecisionTarget == 70
\* the k of precision@3 and precision@5
PrecisionK3 == 3
PrecisionK5 == 5

Hit(score, url) == [score |-> score, url |-> url]

\* what search_qdrant may return for a query
EvalResultLists ==
    {<<>>,
     <<Hit(49, "a")>>,
     <<Hit(90, "a"), Hit(80, "a"), Hit(70, "b")>>,
     <<Hit(50, "a"), Hit(45, "b"), Hit(40, "c")>>}

\* ground_truth_dict[query] of a query that has a ground truth
EvalRelevant == <<"a", "b", "c">>

\* [r["url"] for r in results]
UrlsOf(results) == [i \in DOMAIN results |-> results[i].url]

\* [r['results'][0]['score'] for r in all_results if r['results']]
RECURSIVE Top1Scores(_)
Top1Scores(all) ==
    IF all = <<>> THEN <<>>
    ELSE IF Head(all).results # <<>>
         THEN <<Head(all).results[1].score>> \o Top1Scores(Tail(all))
         ELSE Top1Scores(Tail(all))

\* sum(1 for score in top1_scores if score >= 0.5)
CountAboveStrict(scores) ==
    Cardinality({i \in DOMAIN scores : scores[i] > ScoreThreshold})

CountAbove(scores) ==
    Cardinality({i \in DOMAIN scores : scores[i] >= ScoreThreshold})

\* (queries_above_threshold / total_queries) * 100 >= 80.0, and 0.0 for no
\* query
RelevancePass(all) ==
    /\ Len(all) > 0
    /\ CountAbove(Top1Scores(all)) * 100 >= RelevanceTarget * Len(all)

\* sum(p3_scores), every score being a fraction over PrecisionK3
RECURSIVE SumP3(_)
SumP3(metrics) ==
    IF metrics = <<>> THEN 0 ELSE Head(metrics).p3.num + SumP3(Tail(metrics))

\* (avg_p3 is None) or (avg_p3 >= 0.70)
PrecisionPass(metrics) ==
    \/ metrics = <<>>
    \/ SumP3(metrics) * 100 >= PrecisionTarget * PrecisionK3 * Len(metrics)

\* the value display_summary_report returns
SummaryPass(all, metrics) == RelevancePass(all) /\ PrecisionPass(metrics)

EvalInit ==
    /\ ev_pc = "start"
    /\ ev_n \in 1..MaxQueries
    /\ ev_all_results = <<>>
    /\ ev_precision_metrics = <<>>
    /\ ev_summary = FALSE
    /\ ev_exit = -1

EvalIdle ==
    /\ ev_pc = "off"
    /\ ev_n = 0
    /\ ev_all_results = <<>>
    /\ ev_precision_metrics = <<>>
    /\ ev_summary = FALSE
    /\ ev_exit = -1

\* validate_environment or initialize_clients calls sys.exit(1)
EvalSetupFails ==
    /\ ev_pc = "start"
    /\ ev_exit' = 1
    /\ ev_pc' = "exited"
    /\ UNCHANGED <<ev_n, ev_all_results, ev_precision_metrics, ev_summary>>
    /\ UNCHANGED ev_others

EvalSetup ==
    /\ ev_pc = "start"
    /\ ev_pc' = "loop"
    /\ UNCHANGED <<ev_n, ev_all_results, ev_precision_metrics, ev_summary,
                   ev_exit>>
    /\ UNCHANGED ev_others

\* one iteration of the loop over test_queries
EvalQuery ==
    /\ ev_pc = "loop"
    /\ Len(ev_all_results) < ev_n
    /\ \E results \in EvalResultLists, has_truth \in BOOLEAN :
          /\ ev_all_results' = Append(ev_all_results, [results |-> results])
          /\ ev_precision_metrics' =
                IF has_truth
                THEN Append(ev_precision_metrics,
                            [query |-> Len(ev_all_results) + 1,
                             p3 |-> PrecisionAtK(UrlsOf(results), EvalRelevant,
                                                 PrecisionK3),
                             p5 |-> PrecisionAtK(UrlsOf(results), EvalRelevant,
                                                 PrecisionK5)])
                ELSE ev_precision_metrics
    /\ UNCHANGED <<ev_pc, ev_n, ev_summary, ev_exit>>
    /\ UNCHANGED ev_others

\* generate_query_embedding or search_qdrant raises: the exception leaves
\* main and the interpreter exits with code 1
EvalQueryFails ==
    /\ ev_pc = "loop"
    /\ Len(ev_all_results) < ev_n
    /\ ev_exit' = 1
    /\ ev_pc' = "exited"
    /\ UNCHANGED <<ev_n, ev_all_results, ev_precision_metrics, ev_summary>>
    /\ UNCHANGED ev_others

\* pass_status = display_summary_report(...); return 0 if pass_status else 1
EvalSummary ==
    /\ ev_pc = "loop"
    /\ Len(ev_all_results) = ev_n
    /\ ev_summary' = TRUE
    /\ ev_exit' = IF SummaryPass(ev_all_results, ev_precision_metrics)
                  THEN 0 ELSE 1
    /\ ev_pc' = "exited"
    /\ UNCHANGED <<ev_n, ev_all_results, ev_precision_metrics>>
    /\ UNCHANGED ev_others

EvalNext ==
    \/ EvalSetupFails
    \/ EvalSetup
    \/ EvalQuery
    \/ EvalQueryFails
    \/ EvalSummary

-----------------------------------------------------------------------------
(* The ingestion orchestrator: generate_embeddings, store_vectors, main    *)
(* (main.py 284-381, 384-560).  A discovered URL is its rank in the sorted *)
(* list discover_urls returns.                                             *)

\* batch_size = 96, and the ceiling of generate_embeddings
BatchSize == 96
\* stop_after_attempt(5) of generate_embeddings
EmbedAttempts == 5
\* global_chunk_id = 0
InitialChunkId == 0

\* the chunk counts chunk_text may return for a page
PageSizes == {0, 1, BatchSize}

\* fetch_and_parse raises HTTPError, fetch_and_parse or chunk_text raises
\* something else, or chunk_text returns that many chunks
PageOutcomes ==
    {[kind |-> k, chunks |-> 0] : k \in {"http_error", "error"}}
        \cup {[kind |-> "ok", chunks |-> c] : c \in PageSizes}

BatchOutcomes == {"ok", "embed_fails", "store_fails"}

\* the list chunk_text returns for a page: chunk_id None (-1 here) and
\* position_in_page counting through the page
PageChunks(url, c) ==
    [p \in 1..c |-> [chunk_id |-> -1, source_url |-> url,
                     position_in_page |-> p - 1]]

\* for chunk in chunks: chunk["chunk_id"] = global_chunk_id;
\*                      global_chunk_id += 1
AssignIdsPerPage(chunks, g) ==
    [i \in DOMAIN chunks |-> [chunks[i] EXCEPT !.chunk_id = i - 1]]

AssignIds(chunks, g) ==
    [i \in DOMAIN chunks |-> [chunks[i] EXCEPT !.chunk_id = g + i - 1]]

\* all_chunks[i:i + batch_size]
BatchOfRest(all, i) == SubSeq(all, i + 1, Len(all))

BatchOf(all, i) == SubSeq(all, i + 1, Min(i + BatchSize, Len(all)))

\* generate_embeddings for a batch of `size` chunks whose API requests
\* succeed at attempt `attempt` (0: never): the requests sent and whether
\* embeddings are returned.  Every attempt of an oversized batch raises
\* ValueError before the request; an empty batch returns [] at once.
GenerateEmbeddings(size, attempt) ==
    IF size > BatchSize THEN [requests |-> 0, ok |-> FALSE]
    ELSE IF size = 0 THEN [requests |-> 0, ok |-> TRUE]
    ELSE IF attempt = 0 THEN [requests |-> EmbedAttempts, ok |-> FALSE]
    ELSE [requests |-> attempt, ok |-> TRUE]

EmbedCall(caller, size, r) ==
    [caller |-> caller, size |-> size, requests |-> r.requests, ok |-> r.ok]

\* PointStruct(id=chunk["chunk_id"], ..., payload={url, ..., position})
PointOf(chunk) ==
    [id |-> chunk.chunk_id, url |-> chunk.source_url,
     position |-> chunk.position_in_page]

\* qdrant_client.upsert(points): a point replaces the stored point of the
\* same id
UpsertAsInsert(store, points) ==
    store \cup {[q EXCEPT !.id = q.id + Cardinality(store)] : q \in points}

UpsertPoints(store, points) ==
    {q \in store : \A r \in points : r.id # q.id} \cup points

NewPipelineState ==
    [total_pages_discovered |-> 0, pages_processed |-> 0, pages_failed |-> 0,
     total_chunks_created |-> 0, total_vectors_stored |-> 0, errors |-> <<>>]

NoFirstRun == [chunks |-> <<>>, store |-> {}]

\* the second run meets the pages and outcomes of the first
Replays == ig_run = 2 /\ ~ig_changed

\* batch_num = (i // batch_size) + 1
BatchNumFromZero(i) == i \div BatchSize

BatchNum(i) == (i \div BatchSize) + 1

\* the except clauses of the page loop: pages_failed += 1 and one error
\* entry for the URL
PageFailedUnrecorded(state, kind, url) ==
    [state EXCEPT !.pages_failed = @ + 1]

PageFailed(state, kind, url) ==
    [state EXCEPT !.pages_failed = @ + 1,
                  !.errors = Append(@, [kind |-> kind, ref |-> url])]

IngestInit ==
    /\ ig_pc = "start"
    /\ ig_run = 1
    /\ ig_site = <<>>
    /\ ig_outcomes = <<>>
    /\ ig_urls = <<>>
    /\ ig_idx = 1
    /\ ig_all_chunks = <<>>
    /\ ig_global_chunk_id = InitialChunkId
    /\ ig_state = NewPipelineState
    /\ ig_i = 0
    /\ ig_embed_calls = <<>>
    /\ ig_store = {}
    /\ ig_first = NoFirstRun
    /\ ig_summary = <<>>
    /\ ig_changed = FALSE

IngestIdle ==
    /\ ig_pc = "off"
    /\ ig_run = 1
    /\ ig_site = <<>>
    /\ ig_outcomes = <<>>
    /\ ig_urls = <<>>
    /\ ig_idx = 1
    /\ ig_all_chunks = <<>>
    /\ ig_global_chunk_id = InitialChunkId
    /\ ig_state = NewPipelineState
    /\ ig_i = 0
    /\ ig_embed_calls = <<>>
    /\ ig_store = {}
    /\ ig_first = NoFirstRun
    /\ ig_summary = <<>>
    /\ ig_changed = FALSE

\* a required environment variable is missing, or the collection cannot be
\* checked or created: sys.exit(1)
IngestSetupFails ==
    /\ ig_pc = "start"
    /\ ig_pc' = "aborted"
    /\ UNCHANGED <<ig_run, ig_site, ig_outcomes, ig_urls, ig_idx,
                   ig_all_chunks, ig_global_chunk_id, ig_state, ig_i,
                   ig_embed_calls, ig_store, ig_first, ig_summary>>
    /\ UNCHANGED ig_changed
    /\ UNCHANGED ig_others

IngestSetup ==
    /\ ig_pc = "start"
    /\ ig_pc' = "discover"
    /\ ig_state' = NewPipelineState
    /\ UNCHANGED <<ig_run, ig_site, ig_outcomes, ig_urls, ig_idx,
                   ig_all_chunks, ig_global_chunk_id, ig_i, ig_embed_calls,
                   ig_store, ig_first, ig_summary>>
    /\ UNCHANGED ig_changed
    /\ UNCHANGED ig_others

\* discover_urls raises: sys.exit(1)
IngestDiscoverFails ==
    /\ ig_pc = "discover"
    /\ ig_run = 1
    /\ ig_pc' = "aborted"
    /\ UNCHANGED <<ig_run, ig_site, ig_outcomes, ig_urls, ig_idx,
                   ig_all_chunks, ig_global_chunk_id, ig_state, ig_i,
                   ig_embed_calls, ig_store, ig_first, ig_summary>>
    /\ UNCHANGED ig_changed
    /\ UNCHANGED ig_others

\* urls = discover_urls(base_url); the second run discovers the same list
\* unless the site has changed
IngestDiscover ==
    /\ ig_pc = "discover"
    /\ \E n \in 0..MaxPages :
          /\ Replays => n = Len(ig_urls)
          /\ ig_changed => n <= MaxChangedPages
          /\ ig_urls' = [u \in 1..n |-> u]
          /\ ig_state' = [ig_state EXCEPT !.total_pages_discovered = n]
    /\ ig_all_chunks' = <<>>
    /\ ig_global_chunk_id' = InitialChunkId
    /\ ig_idx' = 1
    /\ ig_pc' = "pages"
    /\ UNCHANGED <<ig_run, ig_site, ig_outcomes, ig_i, ig_embed_calls,
                   ig_store, ig_first, ig_summary>>
    /\ UNCHANGED ig_changed
    /\ UNCHANGED ig_others

\* one iteration of the page loop; the second run meets the same pages
IngestPage ==
    /\ ig_pc = "pages"
    /\ ig_idx <= Len(ig_urls)
    /\ \E o \in PageOutcomes :
          /\ Replays => o = ig_site[ig_idx]
          /\ ig_site' = IF Replays THEN ig_site ELSE Append(ig_site, o)
          /\ IF o.kind = "ok"
             THEN LET chunks == AssignIds(PageChunks(ig_urls[ig_idx], o.chunks),
                                          ig_global_chunk_id)
                  IN  /\ ig_all_chunks' = ig_all_chunks \o chunks
                      /\ ig_global_chunk_id' = ig_global_chunk_id + Len(chunks)
                      /\ ig_state' =
                            [ig_state EXCEPT
                                !.pages_processed = @ + 1,
                                !.total_chunks_created = @ + Len(chunks)]
             ELSE /\ ig_state' = PageFailed(ig_state, o.kind, ig_urls[ig_idx])
                  /\ UNCHANGED <<ig_all_chunks, ig_global_chunk_id>>
    /\ ig_idx' = ig_idx + 1
    /\ UNCHANGED <<ig_pc, ig_run, ig_outcomes, ig_urls, ig_i, ig_embed_calls,
                   ig_store, ig_first, ig_summary>>
    /\ UNCHANGED ig_changed
    /\ UNCHANGED ig_others

\* the page loop ends; batch_size = 96 and the batch loop starts
IngestPagesDone ==
    /\ ig_pc = "pages"
    /\ ig_idx > Len(ig_urls)
    /\ ig_i' = 0
    /\ ig_pc' = "batches"
    /\ UNCHANGED <<ig_run, ig_site, ig_outcomes, ig_urls, ig_idx,
                   ig_all_chunks, ig_global_chunk_id, ig_state,
                   ig_embed_calls, ig_store, ig_first, ig_summary>>
    /\ UNCHANGED ig_changed
    /\ UNCHANGED ig_others

\* one iteration of the batch loop; the second run meets the same outcomes
IngestBatch ==
    /\ ig_pc = "batches"
    /\ ig_i < Len(ig_all_chunks)
    /\ LET batch == BatchOf(ig_all_chunks, ig_i)
           batch_num == BatchNum(ig_i)
       IN  \E o \in BatchOutcomes :
              /\ Replays => o = ig_outcomes[batch_num]
              /\ ig_outcomes' = IF Replays THEN ig_outcomes
                                ELSE Append(ig_outcomes, o)
              /\ LET r == GenerateEmbeddings(
                              Len(batch),
                              IF o = "embed_fails" THEN 0 ELSE 1)
                 IN  /\ ig_embed_calls' =
                           Append(ig_embed_calls,
                                  EmbedCall("main", Len(batch), r))
                     /\ IF r.ok /\ o = "ok"
                        THEN /\ ig_store' =
                                   UpsertPoints(ig_store,
                                                {PointOf(batch[j]) :
                                                    j \in DOMAIN batch})
                             /\ ig_state' =
                                   [ig_state EXCEPT
                                       !.total_vectors_stored = @ + Len(batch)]
                        ELSE /\ ig_state' =
                                   [ig_state EXCEPT
                                       !.errors =
                                           Append(@, [kind |-> "batch",
                                                      ref |-> batch_num])]
                             /\ UNCHANGED ig_store
    /\ ig_i' = ig_i + BatchSize
    /\ UNCHANGED <<ig_pc, ig_run, ig_site, ig_urls, ig_idx, ig_all_chunks,
                   ig_global_chunk_id, ig_first, ig_summary>>
    /\ UNCHANGED ig_changed
    /\ UNCHANGED ig_others

\* the batch loop ends and the final summary is logged
IngestSummary ==
    /\ ig_pc = "batches"
    /\ ig_i >= Len(ig_all_chunks)
    /\ ig_summary' = <<ig_state>>
    /\ ig_first' = IF ig_run = 1
                   THEN [chunks |-> ig_all_chunks, store |-> ig_store]
                   ELSE ig_first
    /\ ig_pc' = "done"
    /\ UNCHANGED <<ig_run, ig_site, ig_outcomes, ig_urls, ig_idx,
                   ig_all_chunks, ig_global_chunk_id, ig_state, ig_i,
                   ig_embed_calls, ig_store>>
    /\ UNCHANGED ig_changed
    /\ UNCHANGED ig_others

\* the script is run a second time over the same site
IngestRunAgain ==
    /\ ig_pc = "done"
    /\ ig_run = 1
    /\ ig_run' = 2
    /\ ig_pc' = "discover"
    /\ ig_state' = NewPipelineState
    /\ ig_summary' = <<>>
    /\ UNCHANGED <<ig_site, ig_outcomes, ig_urls, ig_idx, ig_all_chunks,
                   ig_global_chunk_id, ig_i, ig_embed_calls, ig_store,
                   ig_first>>
    /\ ig_changed' = FALSE
    /\ UNCHANGED ig_others

\* the script is run a second time after the site has changed: pages may
\* have gone, shrunk, grown or begun to fail
IngestRunChanged ==
    /\ ig_pc = "done"
    /\ ig_run = 1
    /\ ig_run' = 2
    /\ ig_changed' = TRUE
    /\ ig_pc' = "discover"
    /\ ig_state' = NewPipelineState
    /\ ig_summary' = <<>>
    /\ ig_site' = <<>>
    /\ ig_outcomes' = <<>>
    /\ UNCHANGED <<ig_urls, ig_idx, ig_all_chunks, ig_global_chunk_id, ig_i,
                   ig_embed_calls, ig_store, ig_first>>
    /\ UNCHANGED ig_others

\* after the runs another caller calls generate_embeddings with a list of
\* any length
EmbedDirect ==
    /\ ig_pc = "done"
    /\ ig_run = 2
    /\ ~ig_changed
    /\ \A j \in DOMAIN ig_embed_calls : ig_embed_calls[j].caller = "main"
    /\ \E size \in {0, BatchSize} \cup
                   (BatchSize + 1)..(BatchSize + MaxOverBatch),
          attempt \in {0, EmbedAttempts} :
          ig_embed_calls' =
              Append(ig_embed_calls,
                     EmbedCall("other", size, GenerateEmbeddings(size, attempt)))
    /\ UNCHANGED <<ig_pc, ig_run, ig_site, ig_outcomes, ig_urls, ig_idx,
                   ig_all_chunks, ig_global_chunk_id, ig_state, ig_i,
                   ig_store, ig_first, ig_summary>>
    /\ UNCHANGED ig_changed
    /\ UNCHANGED ig_others

IngestNext ==
    \/ IngestSetupFails
    \/ IngestSetup
    \/ IngestDiscoverFails
    \/ IngestDiscover
    \/ IngestPage
    \/ IngestPagesDone
    \/ IngestBatch
    \/ IngestSummary
    \/ IngestRunAgain
    \/ IngestRunChanged
    \/ EmbedDirect

-----------------------------------------------------------------------------
(* chunk_text as a whole, with its heading branch (main.py 158-281).  A    *)
(* token is taken to be one character of the encoded text.                 *)

\* text.find(needle): the smallest 0-based index of needle in t, or -1
Find(t, needle) ==
    LET hits == {i \in 0..(Len(t) - Len(needle)) :
                    \A j \in 1..Len(needle) : t[i + j] = needle[j]}
    IN  IF hits = {} THEN -1
        ELSE CHOOSE i \in hits : \A h \in hits : i <= h

\* seq[lo:hi]
PySlice(t, lo, hi) ==
    SubSeq(t, PySliceBound(lo, Len(t)) + 1, PySliceBound(hi, Len(t)))

\* encoder.encode(text) and encoder.decode(tokens)
Encode(t) == [i \in DOMAIN t |-> <<t[i]>>]

Decode(tokens) == Concat(tokens)

\* current_headings after one more heading
NextHeadings(current, h) ==
    IF h.level = "h1" THEN <<h.text>>
    ELSE IF h.level = "h2"
         THEN IF Len(current) = 0 THEN <<h.text>>
              ELSE IF Len(current) = 1 THEN Append(current, h.text)
              ELSE [current EXCEPT ![2] = h.text]
    ELSE current

\* " > ".join(current_headings)
RECURSIVE JoinContext(_)
JoinContext(current) ==
    IF current = <<>> THEN <<>>
    ELSE IF Len(current) = 1 THEN Head(current)
    ELSE Head(current) \o <<" ", ">", " ">> \o JoinContext(Tail(current))

\* the loop over headings: one section for every heading found in the text
RECURSIVE LocateSections(_, _, _)
LocateSections(text, headings, current) ==
    IF headings = <<>> THEN <<>>
    ELSE LET h == Head(headings)
             cur == NextHeadings(current, h)
             pos == Find(text, h.text)
             rest == LocateSections(text, Tail(headings), cur)
         IN  IF pos >= 0
             THEN <<[position |-> pos, heading |-> JoinContext(cur),
                     text |-> h.text]>> \o rest
             ELSE rest

RECURSIVE InsertByPosition(_, _)
InsertByPosition(x, sorted) ==
    IF sorted = <<>> \/ x.position <= Head(sorted).position
    THEN <<x>> \o sorted
    ELSE <<Head(sorted)>> \o InsertByPosition(x, Tail(sorted))

\* sections.sort(key=lambda x: x['position']), a stable sort
RECURSIVE SortSections(_)
SortSections(sections) ==
    IF sections = <<>> THEN <<>>
    ELSE InsertByPosition(Head(sections), SortSections(Tail(sections)))

\* the token windows of the while loop, from `start` on
RECURSIVE Windows(_, _, _, _)
Windows(tokens, start, max_tokens, overlap_tokens) ==
    IF start < Len(tokens)
    THEN LET end == start + max_tokens
         IN  <<PySlice(tokens, start, end)>>
                \o Windows(tokens, end - overlap_tokens, max_tokens,
                           overlap_tokens)
    ELSE <<>>

\* the chunks appended for one stretch of text, the first at `position`.
\* section, start_pos and end_pos are not fields of the code's dict: they
\* record the section the chunk came from and its boundaries in the text.
StretchChunks(stretch, heading_context, position, section, start_pos, end_pos, max_tokens, overlap_tokens) ==
    LET w == Windows(Encode(stretch), 0, max_tokens, overlap_tokens)
    IN  [k \in DOMAIN w |->
            [heading_context |-> heading_context,
             text_content |-> Decode(w[k]),
             token_count |-> Len(w[k]),
             position_in_page |-> position + k - 1,
             section |-> section,
             start_pos |-> start_pos,
             end_pos |-> end_pos]]

\* the loop over the sorted sections, from section i on
RECURSIVE SectionChunks(_, _, _, _, _, _)
SectionChunks(text, sections, i, position, max_tokens, overlap_tokens) ==
    IF i > Len(sections) THEN <<>>
    ELSE LET start_pos == sections[i].position + Len(sections[i].text)
             end_pos == IF i + 1 <= Len(sections)
                        THEN sections[i + 1].position ELSE Len(text)
             section_text == Strip(PySlice(text, start_pos, end_pos))
             chunks == StretchChunks(section_text, sections[i].heading,
                                     position, i, start_pos, end_pos,
                                     max_tokens, overlap_tokens)
         IN  IF section_text = <<>>
             THEN SectionChunks(text, sections, i + 1, position, max_tokens,
                                overlap_tokens)
             ELSE chunks \o SectionChunks(text, sections, i + 1,
                                          position + Len(chunks), max_tokens,
                                          overlap_tokens)

NoHeading == <<"N", "o", " ", "h", "e", "a", "d", "i", "n", "g">>

\* what chunk_text returns for a text that is not blank
ChunkText(text, headings, max_tokens, overlap_tokens) ==
    IF headings = <<>>
    THEN StretchChunks(text, NoHeading, 0, 0, 0, Len(text), max_tokens,
                       overlap_tokens)
    ELSE SectionChunks(text,
                       SortSections(LocateSections(text, headings, <<>>)),
                       1, 0, max_tokens, overlap_tokens)

BodyChars == {"A", "B", "x", " "}

\* the headings a page may have; "Z" occurs in no body
HeadingChoices ==
    {[level |-> "h1", text |-> <<"A">>], [level |-> "h2", text |-> <<"B">>],
     [level |-> "h2", text |-> <<"Z">>]}

\* pipeline_state as far as one page changes it
NoPageCounted ==
    [pages_processed |-> 0, pages_failed |-> 0, total_chunks_created |-> 0]

\* pipeline_state["pages_processed"] += 1;
\* pipeline_state["total_chunks_created"] += len(chunks)
CountEmptyPageAsFailed(state, chunks) ==
    IF chunks = <<>> THEN [state EXCEPT !.pages_failed = @ + 1]
    ELSE [state EXCEPT !.pages_processed = @ + 1,
                       !.total_chunks_created = @ + Len(chunks)]

CountPage(state, chunks) ==
    [state EXCEPT !.pages_processed = @ + 1,
                  !.total_chunks_created = @ + Len(chunks)]

HeadingsInit ==
    /\ hc_pc = "start"
    /\ hc_text \in SeqsUpTo(BodyChars, MaxBodyLen)
    /\ hc_headings \in SeqsUpTo(HeadingChoices, MaxHeadings)
    /\ hc_max = 2
    /\ hc_ov \in {0, 1}
    /\ hc_chunks = <<>>
    /\ hc_error = "none"
    /\ hc_page = NoPageCounted

HeadingsIdle ==
    /\ hc_pc = "off"
    /\ hc_text = <<>>
    /\ hc_headings = <<>>
    /\ hc_max = 0
    /\ hc_ov = 0
    /\ hc_chunks = <<>>
    /\ hc_error = "none"
    /\ hc_page = NoPageCounted

\* if not text.strip(): raise ValueError
HeadingsRaiseEmpty ==
    /\ hc_pc = "start"
    /\ Strip(hc_text) = <<>>
    /\ hc_error' = "ValueError"
    /\ hc_pc' = "error"
    /\ UNCHANGED <<hc_text, hc_headings, hc_max, hc_ov, hc_chunks>>
    /\ UNCHANGED hc_page
    /\ UNCHANGED hc_others

\* the page has no headings: the whole text is one stretch
HeadingsChunkPlain ==
    /\ hc_pc = "start"
    /\ Strip(hc_text) # <<>>
    /\ hc_headings = <<>>
    /\ hc_chunks' = ChunkText(hc_text, hc_headings, hc_max, hc_ov)
    /\ hc_pc' = "done"
    /\ UNCHANGED <<hc_text, hc_headings, hc_max, hc_ov, hc_error>>
    /\ UNCHANGED hc_page
    /\ UNCHANGED hc_others

\* the page has headings: the text is cut at the headings found in it
HeadingsChunkSections ==
    /\ hc_pc = "start"
    /\ Strip(hc_text) # <<>>
    /\ hc_headings # <<>>
    /\ hc_chunks' = ChunkText(hc_text, hc_headings, hc_max, hc_ov)
    /\ hc_pc' = "done"
    /\ UNCHANGED <<hc_text, hc_headings, hc_max, hc_ov, hc_error>>
    /\ UNCHANGED hc_page
    /\ UNCHANGED hc_others

\* chunk_text returned: main ends the try body of the page
HeadingsPageProcessed ==
    /\ hc_pc = "done"
    /\ hc_page' = CountPage(hc_page, hc_chunks)
    /\ hc_pc' = "counted"
    /\ UNCHANGED <<hc_text, hc_headings, hc_max, hc_ov, hc_chunks, hc_error>>
    /\ UNCHANGED hc_others

\* chunk_text raised: except Exception of main
HeadingsPageFailed ==
    /\ hc_pc = "error"
    /\ hc_page' = [hc_page EXCEPT !.pages_failed = @ + 1]
    /\ hc_pc' = "counted"
    /\ UNCHANGED <<hc_text, hc_headings, hc_max, hc_ov, hc_chunks, hc_error>>
    /\ UNCHANGED hc_others

HeadingsNext ==
    \/ HeadingsRaiseEmpty
    \/ HeadingsChunkPlain
    \/ HeadingsChunkSections
    \/ HeadingsPageProcessed
    \/ HeadingsPageFailed

-----------------------------------------------------------------------------
(* fetch_and_parse and the page loop of main (main.py 102-155, 474-510) *)

\* stop_after_attempt(3) of fetch_and_parse
FetchAttempts == 3

\* what one requests.get + raise_for_status can do: answer a page, raise
\* requests.Timeout (ConnectTimeout, ReadTimeout), raise HTTPError for a
\* 4xx or 5xx status, or raise another RequestException
RequestOutcomes == {"ok", "timeout", "http_404", "http_500", "connection_error"}

IsHttpError(o) == o \in {"http_404", "http_500"}

\* retry=retry_if_exception_type(requests.Timeout)
RetryOnAnyError(o) == o # "ok"

RetryOn(o) == o = "timeout"

\* the exception fetch_and_parse ends with after a request that raised:
\* "retry" when tenacity calls the function again, RetryError when the
\* attempts are used up (reraise is not set), else the exception itself
AfterRaise(o, attempts) ==
    IF RetryOn(o)
    THEN IF attempts < FetchAttempts THEN "retry" ELSE "RetryError"
    ELSE IF IsHttpError(o) THEN "HTTPError" ELSE "ConnectionError"

\* f"HTTP {e.response.status_code}"
HttpErrorText(o) == IF o = "http_404" THEN "HTTP 404" ELSE "HTTP 500"

FetchInit ==
    /\ fp_pc = "loop"
    /\ fp_n \in 1..MaxFetchPages
    /\ fp_idx = 1
    /\ fp_requests = <<>>
    /\ fp_raised = "none"
    /\ fp_calls = <<>>
    /\ fp_state = [pages_processed |-> 0, pages_failed |-> 0, errors |-> <<>>]

FetchIdle ==
    /\ fp_pc = "off"
    /\ fp_n = 0
    /\ fp_idx = 0
    /\ fp_requests = <<>>
    /\ fp_raised = "none"
    /\ fp_calls = <<>>
    /\ fp_state = [pages_processed |-> 0, pages_failed |-> 0, errors |-> <<>>]

\* for idx, url in enumerate(urls, 1): ... fetch_and_parse(url)
FetchCall ==
    /\ fp_pc = "loop"
    /\ fp_idx <= fp_n
    /\ fp_pc' = "request"
    /\ fp_requests' = <<>>
    /\ fp_raised' = "none"
    /\ UNCHANGED <<fp_n, fp_idx, fp_calls, fp_state>>
    /\ UNCHANGED fp_others

\* requests.get(url, timeout=30); response.raise_for_status() pass and the
\* page is parsed
FetchRequestOk ==
    /\ fp_pc = "request"
    /\ fp_requests' = Append(fp_requests, "ok")
    /\ fp_pc' = "returned"
    /\ UNCHANGED <<fp_n, fp_idx, fp_raised, fp_calls, fp_state>>
    /\ UNCHANGED fp_others

\* the request raises: tenacity calls again or lets an exception out
FetchRequestRaises ==
    /\ fp_pc = "request"
    /\ \E o \in RequestOutcomes \ {"ok"} :
          /\ fp_requests' = Append(fp_requests, o)
          /\ LET after == AfterRaise(o, Len(fp_requests'))
             IN  IF after = "retry"
                 THEN /\ fp_pc' = "request"
                      /\ UNCHANGED fp_raised
                 ELSE /\ fp_pc' = "raised"
                      /\ fp_raised' = after
    /\ UNCHANGED <<fp_n, fp_idx, fp_calls, fp_state>>
    /\ UNCHANGED fp_others

\* the try body ends: pipeline_state["pages_processed"] += 1
FetchPageProcessed ==
    /\ fp_pc = "returned"
    /\ fp_state' = [fp_state EXCEPT !.pages_processed = @ + 1]
    /\ fp_calls' = Append(fp_calls, [requests |-> fp_requests, raised |-> "none"])
    /\ fp_idx' = fp_idx + 1
    /\ fp_pc' = "loop"
    /\ UNCHANGED <<fp_n, fp_requests, fp_raised>>
    /\ UNCHANGED fp_others

\* except requests.HTTPError as e
FetchPageHttpError ==
    /\ fp_pc = "raised"
    /\ fp_raised = "HTTPError"
    /\ fp_state' = [fp_state EXCEPT
                      !.pages_failed = @ + 1,
                      !.errors = Append(@, [url |-> fp_idx,
                            error |-> HttpErrorText(fp_requests[Len(fp_requests)])])]
    /\ fp_calls' = Append(fp_calls, [requests |-> fp_requests, raised |-> fp_raised])
    /\ fp_idx' = fp_idx + 1
    /\ fp_pc' = "loop"
    /\ UNCHANGED <<fp_n, fp_requests, fp_raised>>
    /\ UNCHANGED fp_others

\* except Exception as e
FetchPageException ==
    /\ fp_pc = "raised"
    /\ fp_raised # "HTTPError"
    /\ fp_state' = [fp_state EXCEPT
                      !.pages_failed = @ + 1,
                      !.errors = Append(@, [url |-> fp_idx, error |-> fp_raised])]
    /\ fp_calls' = Append(fp_calls, [requests |-> fp_requests, raised |-> fp_raised])
    /\ fp_idx' = fp_idx + 1
    /\ fp_pc' = "loop"
    /\ UNCHANGED <<fp_n, fp_requests, fp_raised>>
    /\ UNCHANGED fp_others

\* the loop over urls ends
FetchLoopEnds ==
    /\ fp_pc = "loop"
    /\ fp_idx > fp_n
    /\ fp_pc' = "done"
    /\ UNCHANGED <<fp_n, fp_idx, fp_requests, fp_raised, fp_calls, fp_state>>
    /\ UNCHANGED fp_others

FetchNext ==
    \/ FetchCall
    \/ FetchRequestOk
    \/ FetchRequestRaises
    \/ FetchPageProcessed
    \/ FetchPageHttpError
    \/ FetchPageException
    \/ FetchLoopEnds

-----------------------------------------------------------------------------
(* generate_embeddings under its retry decorator, and the batch step of    *)
(* main that calls it (main.py 284-326, 516-539)                           *)

\* len(embeddings[0]) != 1024
EmbeddingDim == 1024

\* the dimensions the embedding API may answer with
AnsweredDims == {EmbeddingDim, 512}

\* the batch sizes of the calls: empty, within the ceiling, above it
EmbedSizes == 0..MaxEmbedSize \cup {BatchSize + 1}

\* what cohere_client.embed may do for `size` texts: raise, or answer one
\* vector per text
EmbedAnswers(size) ==
    {[kind |-> "api_error", dims |-> <<>>]}
        \cup {[kind |-> "response", dims |-> d] : d \in [1..size -> AnsweredDims]}

\* if embeddings and len(embeddings[0]) != 1024
DimensionCheck(embeddings) ==
    embeddings # <<>> /\ embeddings[1] # EmbeddingDim

\* the decorator names no exception type: tenacity retries after any
\* exception until stop_after_attempt(5)
RetryEmbed(attempt) == TRUE

EmbedInit ==
    /\ ge_pc = "attempt"
    /\ ge_size \in EmbedSizes
    /\ ge_attempts = <<>>
    /\ ge_embeddings = <<>>
    /\ ge_raised = "none"
    /\ ge_stored = 0
    /\ ge_errors = 0

EmbedIdle ==
    /\ ge_pc = "off"
    /\ ge_size = 0
    /\ ge_attempts = <<>>
    /\ ge_embeddings = <<>>
    /\ ge_raised = "none"
    /\ ge_stored = 0
    /\ ge_errors = 0

\* an attempt has raised: tenacity calls again, raises RetryError when the
\* attempts are used up, or lets the exception out
EmbedAfterRaise(attempt, exception) ==
    /\ ge_attempts' = Append(ge_attempts, attempt)
    /\ IF ~RetryEmbed(attempt)
       THEN /\ ge_pc' = "raised"
            /\ ge_raised' = exception
       ELSE IF Len(ge_attempts') < EmbedAttempts
       THEN /\ ge_pc' = "attempt"
            /\ UNCHANGED ge_raised
       ELSE /\ ge_pc' = "raised"
            /\ ge_raised' = "RetryError"

\* if len(chunks) > 96: raise ValueError
EmbedAttemptOversized ==
    /\ ge_pc = "attempt"
    /\ ge_size > BatchSize
    /\ EmbedAfterRaise([kind |-> "batch_size", dims |-> <<>>], "ValueError")
    /\ UNCHANGED <<ge_size, ge_embeddings, ge_stored, ge_errors>>
    /\ UNCHANGED ge_others

\* if len(chunks) == 0: return []
EmbedAttemptEmpty ==
    /\ ge_pc = "attempt"
    /\ ge_size = 0
    /\ ge_attempts' = Append(ge_attempts, [kind |-> "empty", dims |-> <<>>])
    /\ ge_embeddings' = <<>>
    /\ ge_pc' = "returned"
    /\ UNCHANGED <<ge_size, ge_raised, ge_stored, ge_errors>>
    /\ UNCHANGED ge_others

\* cohere_client.embed(...) raises
EmbedAttemptApiError ==
    /\ ge_pc = "attempt"
    /\ 0 < ge_size /\ ge_size <= BatchSize
    /\ EmbedAfterRaise([kind |-> "api_error", dims |-> <<>>], "ApiError")
    /\ UNCHANGED <<ge_size, ge_embeddings, ge_stored, ge_errors>>
    /\ UNCHANGED ge_others

\* cohere_client.embed(...) answers and the dimension check raises
EmbedAttemptDimensionError ==
    /\ ge_pc = "attempt"
    /\ 0 < ge_size /\ ge_size <= BatchSize
    /\ \E a \in EmbedAnswers(ge_size) :
          /\ a.kind = "response"
          /\ DimensionCheck(a.dims)
          /\ EmbedAfterRaise([kind |-> "dimension", dims |-> a.dims], "ValueError")
    /\ UNCHANGED <<ge_size, ge_embeddings, ge_stored, ge_errors>>
    /\ UNCHANGED ge_others

\* cohere_client.embed(...) answers and the check passes: return embeddings
EmbedAttemptReturns ==
    /\ ge_pc = "attempt"
    /\ 0 < ge_size /\ ge_size <= BatchSize
    /\ \E a \in EmbedAnswers(ge_size) :
          /\ a.kind = "response"
          /\ ~DimensionCheck(a.dims)
          /\ ge_attempts' = Append(ge_attempts, a)
          /\ ge_embeddings' = a.dims
    /\ ge_pc' = "returned"
    /\ UNCHANGED <<ge_size, ge_raised, ge_stored, ge_errors>>
    /\ UNCHANGED ge_others

\* count = store_vectors(embeddings, batch, ...): the points are upserted
\* (whether the collection takes a vector of another dimension is the
\* server's choice)
EmbedBatchStored ==
    /\ ge_pc = "returned"
    /\ ge_stored' = Len(ge_embeddings)
    /\ ge_pc' = "stored"
    /\ UNCHANGED <<ge_size, ge_attempts, ge_embeddings, ge_raised, ge_errors>>
    /\ UNCHANGED ge_others

\* generate_embeddings or store_vectors raised: except Exception of the
\* batch loop appends an error entry
EmbedBatchFailed ==
    /\ \/ ge_pc = "raised"
       \/ ge_pc = "returned" /\ ge_embeddings # <<>>
    /\ ge_errors' = ge_errors + 1
    /\ ge_pc' = "failed"
    /\ UNCHANGED <<ge_size, ge_attempts, ge_embeddings, ge_raised, ge_stored>>
    /\ UNCHANGED ge_others

EmbedNext ==
    \/ EmbedAttemptOversized
    \/ EmbedAttemptEmpty
    \/ EmbedAttemptApiError
    \/ EmbedAttemptDimensionError
    \/ EmbedAttemptReturns
    \/ EmbedBatchStored
    \/ EmbedBatchFailed

-----------------------------------------------------------------------------
(* The conversation session shared by the /chat requests (api.py 138-159,  *)
(* 252-262).  Runner.run(agent, query, session=session) reads the items of *)
(* the session when the run starts and appends the turns of the run when   *)
(* it ends; requests are coroutines of one event loop and interleave at    *)
(* the await.                                                              *)

Clients == {"client_a", "client_b"}

\* session = SQLiteSession("fastapi_chatbot"), created once by lifespan
StartupSession == "fastapi_chatbot"

SessionIds == {StartupSession} \cup Clients

\* the session a request hands to Runner.run: the global of the module
SessionPerClient(client) == client

SessionOf(client) == StartupSession

NoRequest ==
    [pc |-> "idle", client |-> "none", blank |-> FALSE, session |-> "none",
     history |-> <<>>, started |-> 0, appended |-> 0]

Turn(r, role) == [request |-> r, role |-> role]

SessionInit ==
    /\ cs_logs = [s \in SessionIds |-> <<>>]
    /\ cs_req = [r \in 1..MaxChatInFlight |-> NoRequest]
    /\ cs_clock = 1

SessionIdle ==
    /\ cs_logs = <<>>
    /\ cs_req = <<>>
    /\ cs_clock = 0

\* a client posts to /chat
SessionReceive(r) ==
    /\ cs_req[r].pc = "idle"
    /\ \E c \in Clients, blank \in BOOLEAN :
          cs_req' = [cs_req EXCEPT ![r] = [@ EXCEPT !.pc = "handler",
                                                    !.client = c,
                                                    !.blank = blank]]
    /\ UNCHANGED <<cs_logs, cs_clock>>
    /\ UNCHANGED cs_others

\* if not request.message or not request.message.strip(): 400
SessionRejectBlank(r) ==
    /\ cs_req[r].pc = "handler"
    /\ cs_req[r].blank
    /\ cs_req' = [cs_req EXCEPT ![r].pc = "rejected"]
    /\ UNCHANGED <<cs_logs, cs_clock>>
    /\ UNCHANGED cs_others

\* await Runner.run(agent_instance, query, session=session): the run reads
\* the items of the session and replays them to the agent
SessionRunStarts(r) ==
    /\ cs_req[r].pc = "handler"
    /\ ~cs_req[r].blank
    /\ LET s == SessionOf(cs_req[r].client)
       IN  cs_req' = [cs_req EXCEPT ![r] = [@ EXCEPT !.pc = "running",
                                                     !.session = s,
                                                     !.history = cs_logs[s],
                                                     !.started = cs_clock]]
    /\ cs_clock' = cs_clock + 1
    /\ UNCHANGED cs_logs
    /\ UNCHANGED cs_others

\* the run returns: its user turn and its answer are appended
SessionRunReturns(r) ==
    /\ cs_req[r].pc = "running"
    /\ cs_logs' = [cs_logs EXCEPT ![cs_req[r].session] =
                      @ \o <<Turn(r, "user"), Turn(r, "assistant")>>]
    /\ cs_req' = [cs_req EXCEPT ![r] = [@ EXCEPT !.pc = "done",
                                                  !.appended = cs_clock]]
    /\ cs_clock' = cs_clock + 1
    /\ UNCHANGED cs_others

\* the run raises; whether it had saved the user's turn before is the agent
\* runtime's affair
SessionRunRaises(r) ==
    /\ cs_req[r].pc = "running"
    /\ \E saved \in BOOLEAN :
          IF saved
          THEN /\ cs_logs' = [cs_logs EXCEPT ![cs_req[r].session] =
                                 Append(@, Turn(r, "user"))]
               /\ cs_req' = [cs_req EXCEPT ![r] = [@ EXCEPT !.pc = "failed",
                                                            !.appended = cs_clock]]
          ELSE /\ cs_req' = [cs_req EXCEPT ![r].pc = "failed"]
               /\ UNCHANGED cs_logs
    /\ cs_clock' = cs_clock + 1
    /\ UNCHANGED cs_others

SessionNext ==
    \/ \E r \in 1..MaxChatInFlight : SessionReceive(r)
    \/ \E r \in 1..MaxChatInFlight : SessionRejectBlank(r)
    \/ \E r \in 1..MaxChatInFlight : SessionRunStarts(r)
    \/ \E r \in 1..MaxChatInFlight : SessionRunReturns(r)
    \/ \E r \in 1..MaxChatInFlight : SessionRunRaises(r)

-----------------------------------------------------------------------------
(* Specifications *)

\* one call of chunk_text on a page without headings
InitChunk ==
    /\ ChunkInit
    /\ DiscoverIdle
    /\ RetrieveIdle
    /\ CiteIdle
    /\ ChatIdle
    /\ ProfileIdle
    /\ PrecisionIdle
    /\ EvalIdle
    /\ IngestIdle
    /\ HeadingsIdle
    /\ FetchIdle
    /\ SessionIdle
    /\ EmbedIdle

SpecChunk == InitChunk /\ [][ChunkNext]_vars

\* one call of discover_urls
InitDiscover ==
    /\ DiscoverInit
    /\ ChunkIdle
    /\ RetrieveIdle
    /\ CiteIdle
    /\ ChatIdle
    /\ ProfileIdle
    /\ PrecisionIdle
    /\ EvalIdle
    /\ IngestIdle
    /\ HeadingsIdle
    /\ FetchIdle
    /\ SessionIdle
    /\ EmbedIdle

SpecDiscover == InitDiscover /\ [][DiscoverNext]_vars

\* one call of retrieve_textbook_content, or of search_qdrant by another
\* caller
InitRetrieve ==
    /\ RetrieveInit
    /\ ChunkIdle
    /\ DiscoverIdle
    /\ CiteIdle
    /\ ChatIdle
    /\ ProfileIdle
    /\ PrecisionIdle
    /\ EvalIdle
    /\ IngestIdle
    /\ HeadingsIdle
    /\ FetchIdle
    /\ SessionIdle
    /\ EmbedIdle

SpecRetrieve == InitRetrieve /\ [][RetrieveNext]_vars

\* one call of extract_citations
InitCite ==
    /\ CiteInit
    /\ ChunkIdle
    /\ DiscoverIdle
    /\ RetrieveIdle
    /\ ChatIdle
    /\ ProfileIdle
    /\ PrecisionIdle
    /\ EvalIdle
    /\ IngestIdle
    /\ HeadingsIdle
    /\ FetchIdle
    /\ SessionIdle
    /\ EmbedIdle

SpecCite == InitCite /\ [][CiteNext]_vars

\* the /chat endpoint serving requests one after the other
InitChat ==
    /\ ChatInit
    /\ ChunkIdle
    /\ DiscoverIdle
    /\ RetrieveIdle
    /\ CiteIdle
    /\ ProfileIdle
    /\ PrecisionIdle
    /\ EvalIdle
    /\ IngestIdle
    /\ HeadingsIdle
    /\ FetchIdle
    /\ SessionIdle
    /\ EmbedIdle

SpecChat == InitChat /\ [][ChatNext]_vars

\* the /profile endpoints serving requests one after the other
InitProfile ==
    /\ ProfileInit
    /\ ChunkIdle
    /\ DiscoverIdle
    /\ RetrieveIdle
    /\ CiteIdle
    /\ ChatIdle
    /\ PrecisionIdle
    /\ EvalIdle
    /\ IngestIdle
    /\ HeadingsIdle
    /\ FetchIdle
    /\ SessionIdle
    /\ EmbedIdle

SpecProfile == InitProfile /\ [][ProfileNext]_vars

\* one call of calculate_precision_at_k
InitPrecision ==
    /\ PrecisionInit
    /\ ChunkIdle
    /\ DiscoverIdle
    /\ RetrieveIdle
    /\ CiteIdle
    /\ ChatIdle
    /\ ProfileIdle
    /\ EvalIdle
    /\ IngestIdle
    /\ HeadingsIdle
    /\ FetchIdle
    /\ SessionIdle
    /\ EmbedIdle

SpecPrecision == InitPrecision /\ [][PrecisionNext]_vars

\* one run of the evaluation script test_retrieval.py
InitEval ==
    /\ EvalInit
    /\ ChunkIdle
    /\ DiscoverIdle
    /\ RetrieveIdle
    /\ CiteIdle
    /\ ChatIdle
    /\ ProfileIdle
    /\ PrecisionIdle
    /\ IngestIdle
    /\ HeadingsIdle
    /\ FetchIdle
    /\ SessionIdle
    /\ EmbedIdle

SpecEval == InitEval /\ [][EvalNext]_vars

\* one or two runs of the ingestion orchestrator main()
InitIngest ==
    /\ IngestInit
    /\ ChunkIdle
    /\ DiscoverIdle
    /\ RetrieveIdle
    /\ CiteIdle
    /\ ChatIdle
    /\ ProfileIdle
    /\ PrecisionIdle
    /\ EvalIdle
    /\ HeadingsIdle
    /\ FetchIdle
    /\ SessionIdle
    /\ EmbedIdle

SpecIngest == InitIngest /\ [][IngestNext]_vars

\* one call of chunk_text on a page with headings
InitHeadings ==
    /\ HeadingsInit
    /\ ChunkIdle
    /\ DiscoverIdle
    /\ RetrieveIdle
    /\ CiteIdle
    /\ ChatIdle
    /\ ProfileIdle
    /\ PrecisionIdle
    /\ EvalIdle
    /\ IngestIdle
    /\ FetchIdle
    /\ SessionIdle
    /\ EmbedIdle

SpecHeadings == InitHeadings /\ [][HeadingsNext]_vars

\* the page loop of main() calling fetch_and_parse
InitFetch ==
    /\ FetchInit
    /\ ChunkIdle
    /\ DiscoverIdle
    /\ RetrieveIdle
    /\ CiteIdle
    /\ ChatIdle
    /\ ProfileIdle
    /\ PrecisionIdle
    /\ EvalIdle
    /\ IngestIdle
    /\ HeadingsIdle
    /\ SessionIdle
    /\ EmbedIdle

SpecFetch == InitFetch /\ [][FetchNext]_vars

\* the /chat endpoint serving requests of several clients at once
InitSession ==
    /\ SessionInit
    /\ ChunkIdle
    /\ DiscoverIdle
    /\ RetrieveIdle
    /\ CiteIdle
    /\ ChatIdle
    /\ ProfileIdle
    /\ PrecisionIdle
    /\ EvalIdle
    /\ IngestIdle
    /\ HeadingsIdle
    /\ FetchIdle
    /\ EmbedIdle

SpecSession == InitSession /\ [][SessionNext]_vars

\* one batch of main(): generate_embeddings, then store_vectors
InitEmbed ==
    /\ EmbedInit
    /\ ChunkIdle
    /\ DiscoverIdle
    /\ RetrieveIdle
    /\ CiteIdle
    /\ ChatIdle
    /\ ProfileIdle
    /\ PrecisionIdle
    /\ EvalIdle
    /\ IngestIdle
    /\ HeadingsIdle
    /\ FetchIdle
    /\ SessionIdle

SpecEmbed == InitEmbed /\ [][EmbedNext]_vars

\* the steps of main itself: a started run keeps executing
IngestProgress ==
    \/ IngestSetupFails
    \/ IngestSetup
    \/ IngestDiscoverFails
    \/ IngestDiscover
    \/ IngestPage
    \/ IngestPagesDone
    \/ IngestBatch
    \/ IngestSummary

SpecIngestFair ==
    InitIngest /\ [][IngestNext]_vars /\ WF_vars(IngestProgress)

\* discover_urls on a site fixed in advance; the loop keeps running
InitCrawlSite ==
    /\ CrawlSiteInit
    /\ ChunkIdle
    /\ RetrieveIdle
    /\ CiteIdle
    /\ ChatIdle
    /\ ProfileIdle
    /\ PrecisionIdle
    /\ EvalIdle
    /\ IngestIdle
    /\ HeadingsIdle
    /\ FetchIdle
    /\ SessionIdle
    /\ EmbedIdle

SpecCrawlSite == InitCrawlSite /\ [][DiscoverNext]_vars /\ WF_vars(DiscoverNext)
-----------------------------------------------------------------------------
(* Claims about chunk_text without headings *)

ValidWindow == 0 <= ct_ov /\ ct_ov < ct_max

\* C1: for a non-empty text without headings and 0 <= overlap_tokens <
\* max_tokens, every chunk produced so far has token_count <= max_tokens and
\* each chunk's window starts max_tokens - overlap_tokens after the window
\* of the chunk before it.
C1_WindowBoundAndStride ==
    (~ct_blank /\ ValidWindow) =>
        \A i \in 1..Len(ct_chunks) :
            /\ ct_chunks[i].token_count <= ct_max
            /\ i > 1 => ct_chunks[i].start =
                            ct_chunks[i - 1].start + (ct_max - ct_ov)

\* C1 witness: a finished call with a valid window that produced a full
\* chunk followed by at least two more.
C1_Witness ==
    /\ ct_pc = "done"
    /\ ~ct_blank
    /\ ValidWindow
    /\ ct_ov > 0
    /\ Len(ct_chunks) >= 3
    /\ ct_chunks[1].token_count = ct_max

\* C2: a page of n > 0 tokens with stride s = max_tokens - overlap_tokens > 0
\* returns exactly ceil(n / s) chunks, chunk i (from 0) having position i and
\* covering tokens [i*s, min(i*s + max_tokens, n)); the 1000-token page with
\* the window 512/50 returns [0,512), [462,974), [924,1000).
C2_ChunkCountAndCoverage ==
    (ct_pc = "done" /\ ct_n > 0 /\ ValidWindow) =>
        LET s == ct_max - ct_ov
        IN  /\ Len(ct_chunks) = CeilDiv(ct_n, s)
            /\ \A i \in 1..Len(ct_chunks) :
                  /\ ct_chunks[i].position_in_page = i - 1
                  /\ ct_chunks[i].lo = (i - 1) * s
                  /\ ct_chunks[i].hi = Min((i - 1) * s + ct_max, ct_n)
                  /\ ct_chunks[i].heading_context = "No heading"
            /\ (ct_n = 1000 /\ ct_max = 512 /\ ct_ov = 50) =>
                  [i \in 1..Len(ct_chunks) |->
                      <<ct_chunks[i].lo, ct_chunks[i].hi>>]
                    = <<(<<0, 512>>), (<<462, 974>>), (<<924, 1000>>)>>

\* C2 witness: the 1000-token page has been chunked into three chunks.
C2_Witness ==
    /\ ct_pc = "done"
    /\ ct_n = 1000
    /\ ct_max = 512
    /\ ct_ov = 50
    /\ Len(ct_chunks) = 3

\* C3: a call on non-empty text with overlap_tokens >= max_tokens produces
\* no chunk, and when it ends it has ended with InvalidWindowError.
C3_InvalidWindowRejected ==
    (~ct_blank /\ ct_n > 0 /\ ct_ov >= ct_max) =>
        /\ ct_chunks = <<>>
        /\ ct_pc \in {"done", "error"} => ct_error = "InvalidWindowError"

-----------------------------------------------------------------------------
(* Claims about discover_urls *)

NoDuplicates(q) == \A i, j \in 1..Len(q) : q[i] = q[j] => i = j

IsSorted(q) == \A i \in 1..(Len(q) - 1) : LexLess(q[i], q[i + 1])

\* C4: the list discover_urls returns holds no URL twice, is sorted, and
\* holds only URLs that start with base_url.
C4_ResultUniqueSortedInPrefix ==
    du_pc = "done" =>
        /\ NoDuplicates(du_result)
        /\ IsSorted(du_result)
        /\ \A i \in 1..Len(du_result) : StartsWith(du_result[i], du_base)

\* the <loc> entries of the sitemap answer that start with base_url
MatchingLocs == {u \in Range(du_sitemap.locs) : StartsWith(u, du_base)}

\* C5: when the sitemap is read and at least one <loc> entry starts with
\* base_url, the result is the sorted list, without repeats, of exactly
\* those entries and the link crawl requests no page; the link crawl runs
\* only when the sitemap request or its parsing failed or no entry matched.
C5_SitemapAuthoritative ==
    /\ (du_pc = "done" /\ du_sitemap.status = "ok" /\ MatchingLocs # {}) =>
          /\ Range(du_result) = MatchingLocs
          /\ NoDuplicates(du_result)
          /\ IsSorted(du_result)
          /\ du_fetched = <<>>
          /\ du_to_visit = {}
    /\ (du_pc = "crawl" \/ du_fetched # <<>>) =>
          \/ du_sitemap.status \in {"fetch_failed", "parse_failed"}
          \/ du_sitemap.status = "ok" /\ MatchingLocs = {}

\* C5 witness: a sitemap with a repeated matching entry, another matching
\* entry listed out of order, answered without any crawl.
C5_Witness ==
    /\ du_pc = "done"
    /\ du_sitemap.status = "ok"
    /\ Len(du_sitemap.locs) > Cardinality(MatchingLocs)
    /\ Len(du_result) >= 1
    /\ du_fetched = <<>>

-----------------------------------------------------------------------------
(* Claims about the retrieval tool *)

\* C6: retrieve_textbook_content never raises; when the query embedding or
\* the vector search fails, also because the clients were never set, it
\* returns results = [] with an error string, and when both succeed it
\* returns the search results with error = None.
C6_RetrieveNeverRaises ==
    rt_entry = "retrieve_textbook_content" =>
        /\ rt_raised = NoValue
        /\ rt_pc # "raised"
        /\ (rt_embedding = "failed" \/ rt_search = "failed") =>
              /\ rt_pc = "done"
              /\ rt_return.results = <<>>
              /\ rt_return.error # "None"
        /\ (rt_embedding = "vector" /\ rt_search = "ok") =>
              /\ rt_pc = "done"
              /\ rt_return.results = rt_hits
              /\ rt_return.error = "None"
    
\* C6 witness: the tool was called before the clients were set and has
\* returned an error.
C6_Witness ==
    /\ rt_entry = "retrieve_textbook_content"
    /\ ~rt_clients
    /\ rt_pc = "done"
    /\ rt_return.results = <<>>
    /\ rt_return.error # "None"

\* C7: every search sent to the vector store has a limit within [1, 10],
\* whatever k the caller gave, for retrieve_textbook_content and for
\* search_qdrant called directly.
C7_LimitClamped ==
    \A i \in 1..Len(rt_limits) : 1 <= rt_limits[i] /\ rt_limits[i] <= 10

-----------------------------------------------------------------------------
(* Claims about extract_citations *)

\* the matches whose URL no earlier match has
FirstOccurrences ==
    {i \in 1..Len(ec_matches) :
        \A j \in 1..(i - 1) : ec_matches[j].url # ec_matches[i].url}

\* the k-th smallest element of a set of numbers
KthOf(S, k) == CHOOSE i \in S : Cardinality({j \in S : j <= i}) = k

\* C10: extract_citations returns one citation per distinct URL among the
\* Markdown links of the text, in the order of each URL's first occurrence
\* and with the title of that occurrence, cut to the first 10 distinct URLs;
\* the spec's example text gives (Intro, https://x/a), (Deep Dive,
\* https://x/b).
C10_CitationsFirstOccurrence ==
    ec_pc = "done" =>
        /\ Len(ec_out) = Min(Cardinality(FirstOccurrences), 10)
        /\ \A k \in 1..Len(ec_out) :
              ec_out[k] = ec_matches[KthOf(FirstOccurrences, k)]
        /\ ec_text = ExampleText =>
              ec_out = <<[title |-> <<"I", "n", "t", "r", "o">>,
                          url   |-> <<"h", "t", "t", "p", "s", ":", "/", "/", "x", "/", "a">>],
                         [title |-> <<"D", "e", "e", "p", " ", "D", "i", "v", "e">>,
                          url   |-> <<"h", "t", "t", "p", "s", ":", "/", "/", "x", "/", "b">>]>>

\* C10 witness: a text with more than 10 distinct URLs, each linked twice,
\* has been cut to 10 citations.
C10_Witness ==
    /\ ec_pc = "done"
    /\ Cardinality(FirstOccurrences) > 10
    /\ Len(ec_matches) > Cardinality(FirstOccurrences)
    /\ Len(ec_out) = 10

-----------------------------------------------------------------------------
(* Claims about POST /chat *)

AllWhitespace(t) == \A i \in 1..Len(t) : t[i] \in Whitespace

\* C8: a request whose message is empty or only whitespace is answered with
\* HTTP 400, error = "validation_error", retryable = false, and the agent
\* is not run for it.
C8_BlankMessageIs400 ==
    (ch_pc = "done" /\ AllWhitespace(ch_message)) =>
        /\ ch_response.status = 400
        /\ ch_response.error = "validation_error"
        /\ ch_response.retryable = FALSE
        /\ ~ch_ran

\* c is the lower-case letter k, or its capital
SameLetter(c, k) ==
    \/ c = k
    \/ \E i \in 1..Len(UpperLetters) : UpperLetters[i] = c /\ LowerLetters[i] = k

\* the failure message holds a retrieval keyword, in any case
NamesRetrieval(msg) ==
    \E kw \in Keywords :
        \E i \in 0..(Len(msg) - Len(kw)) :
            \A j \in 1..Len(kw) : SameLetter(msg[i + j], kw[j])

\* C9: for a valid non-blank message, a failure while running the agent or
\* building the response is answered with 503 / service_unavailable /
\* retryable exactly when its message holds a retrieval keyword in any case,
\* and with 500 / server_error / not retryable otherwise; either answer
\* carries an error_id no earlier answer carried, and a request whose agent
\* ran is answered with 200, 503 or 500.
C9_FailureTranslated ==
    /\ (ch_pc = "done" /\ ch_failure # NoValue) =>
          /\ ch_ran
          /\ IF NamesRetrieval(ch_failure)
             THEN /\ ch_response.status = 503
                  /\ ch_response.error = "service_unavailable"
                  /\ ch_response.retryable = TRUE
             ELSE /\ ch_response.status = 500
                  /\ ch_response.error = "server_error"
                  /\ ch_response.retryable = FALSE
          /\ ch_response.error_id # 0
          /\ ch_error_ids # <<>>
          /\ ch_response.error_id = ch_error_ids[Len(ch_error_ids)]
          /\ \A i \in 1..(Len(ch_error_ids) - 1) :
                ch_error_ids[i] # ch_response.error_id
    /\ (ch_pc = "done" /\ ch_ran) =>
          /\ ch_response.status \in {200, 500, 503}
          /\ ch_response.status = 200 <=> ch_failure = NoValue

\* C9 witness: a second failure in a row, whose message names a keyword in
\* capitals, has been answered 503 with its own error_id.
C9_Witness ==
    /\ ch_pc = "done"
    /\ ch_failure # NoValue
    /\ NamesRetrieval(ch_failure)
    /\ ~Contains(ch_failure, CHOOSE kw \in Keywords : Contains(Lower(ch_failure), kw))
    /\ ch_response.status = 503
    /\ Len(ch_error_ids) = 2

-----------------------------------------------------------------------------
(* Claims about the /profile endpoints *)

\* the auth service answered 200 with a user object for a cookie that was sent
SessionConfirmed(cookie, ans) ==
    /\ ~CookieMissing(cookie)
    /\ ans.kind = "answer"
    /\ ans.status = 200
    /\ ans.body \in {"user", "user_without_id"}

\* C11: every statement sent to the profile store belongs to a request
\* whose session cookie the auth service confirmed (HTTP 200 with a user
\* object), and every request whose session is missing or not confirmed is
\* answered with 401 and leaves the profile store untouched.
C11_ProfileNeedsConfirmedSession ==
    /\ \A i \in DOMAIN pf_db_calls :
          SessionConfirmed(pf_db_calls[i].cookie, pf_db_calls[i].auth)
    /\ (pf_pc = "done" /\ ~SessionConfirmed(pf_cookie, pf_auth))
          => /\ pf_response = 401
             /\ pf_store = pf_before
             /\ \A i \in DOMAIN pf_db_calls :
                   pf_db_calls[i].request # pf_served

-----------------------------------------------------------------------------
(* Claims about the evaluation script *)

\* C12: for every k > 0 the returned precision lies in [0, 1], and it is
\* exactly 1 whenever retrieved_urls has at least k entries and each of its
\* first k entries is in relevant_urls, repeated URLs included.
C12_PrecisionInRangeAndFull ==
    (pk_pc = "done" /\ pk_k > 0)
        => /\ 0 <= pk_result.num
           /\ pk_result.num <= pk_result.den
           /\ (/\ Len(pk_retrieved) >= pk_k
               /\ \A i \in 1..pk_k : pk_retrieved[i] \in Range(pk_relevant))
                 => pk_result.num = pk_result.den

\* queries that have a result whose top-1 score reaches the threshold
QueriesMeetingScore ==
    {i \in DOMAIN ev_all_results :
        /\ ev_all_results[i].results # <<>>
        /\ ev_all_results[i].results[1].score >= ScoreThreshold}

\* the sum of precision@3 over the ground-truth queries, in thirds
RECURSIVE ThirdsUpTo(_)
ThirdsUpTo(j) ==
    IF j = 0 THEN 0 ELSE ev_precision_metrics[j].p3.num + ThirdsUpTo(j - 1)

-----------------------------------------------------------------------------
(* Claims about the ingestion orchestrator *)

\* C14: a run that has started discovering URLs eventually reaches Done and
\* emits its summary, whatever URL discovery, the pages and the batches do.
C14_RunReachesDone ==
    (ig_pc = "discover") ~> (ig_pc = "done" /\ ig_summary # <<>>)

\* the chunk a stored point holds: its page and its position in the page
ChunkOf(q) == <<q.url, q.position>>

\* C15: after a second run over the same site, with the same URL order,
\* pages and outcomes, every chunk has the chunk id it had in the first
\* run and the collection holds exactly the points of the first run, no
\* chunk twice.
C15_RerunOverwrites ==
    (ig_run = 2 /\ ~ig_changed /\ ig_pc = "done")
        => /\ ig_all_chunks = ig_first.chunks
           /\ ig_store = ig_first.store
           /\ Cardinality({ChunkOf(q) : q \in ig_store})
                 = Cardinality(ig_store)

\* a second run that stored a full batch and more again
C15_Witness ==
    /\ ig_run = 2
    /\ ~ig_changed
    /\ ig_pc = "done"
    /\ Cardinality(ig_store) > BatchSize
    /\ ig_state.total_vectors_stored = Cardinality(ig_store)

\* the chunks the pages processed so far yield
RECURSIVE ChunksOfPages(_)
ChunksOfPages(n) ==
    IF n = 0 THEN 0
    ELSE ChunksOfPages(n - 1)
            + (IF ig_site[n].kind = "ok" THEN ig_site[n].chunks ELSE 0)

\* chunk c comes before chunk d in the order of the discovered URLs and,
\* within a page, of position_in_page
ComesBefore(c, d) ==
    \/ c.source_url < d.source_url
    \/ /\ c.source_url = d.source_url
       /\ c.position_in_page < d.position_in_page

\* C16: when page processing has ended the chunk ids are exactly 0..N-1
\* for the N chunks created, each next id belongs to a chunk that comes
\* later in the order of the discovered URLs and, within a page, of
\* position_in_page, and a page that failed to fetch or chunk has consumed
\* no id.
C16_ChunkIdsSequential ==
    ig_pc \in {"batches", "done"}
        => /\ \A i \in DOMAIN ig_all_chunks : ig_all_chunks[i].chunk_id = i - 1
           /\ \A i \in 1..(Len(ig_all_chunks) - 1) :
                 ComesBefore(ig_all_chunks[i], ig_all_chunks[i + 1])
           /\ Len(ig_all_chunks) = ChunksOfPages(Len(ig_urls))
           /\ ig_global_chunk_id = Len(ig_all_chunks)
           /\ \A i \in DOMAIN ig_all_chunks :
                 ig_site[ig_all_chunks[i].source_url].kind = "ok"

\* a failed page followed by a page with chunks
C16_Witness ==
    /\ ig_pc = "done"
    /\ Len(ig_urls) >= 2
    /\ ig_site[1].kind # "ok"
    /\ Len(ig_all_chunks) >= 2

\* C17: a call of generate_embeddings with more than 96 chunks fails
\* without a request to the embedding API, and main never makes such a
\* call, however many chunks there are.
C17_BatchCeiling ==
    \A j \in DOMAIN ig_embed_calls :
        /\ ig_embed_calls[j].size > BatchSize
              => /\ ~ig_embed_calls[j].ok
                 /\ ig_embed_calls[j].requests = 0
        /\ ig_embed_calls[j].caller = "main"
              => ig_embed_calls[j].size <= BatchSize

\* main has embedded more than one batch, and another caller has passed an
\* oversized list
C17_Witness ==
    /\ Len(ig_all_chunks) > BatchSize
    /\ \E j \in DOMAIN ig_embed_calls :
          /\ ig_embed_calls[j].caller = "main"
          /\ ig_embed_calls[j].size < BatchSize
    /\ \E j \in DOMAIN ig_embed_calls :
          /\ ig_embed_calls[j].caller = "other"
          /\ ig_embed_calls[j].size > BatchSize

-----------------------------------------------------------------------------
(* Claims about chunk_text with headings *)

\* C18: with headings given, the first chunk of every heading section has
\* position 0 and the position grows by 1 from chunk to chunk only within
\* a section.
C18_PositionRestartsPerSection ==
    (hc_pc = "done" /\ hc_headings # <<>>)
        => \A k \in DOMAIN hc_chunks :
              IF k = 1 \/ hc_chunks[k - 1].section # hc_chunks[k].section
              THEN hc_chunks[k].position_in_page = 0
              ELSE hc_chunks[k].position_in_page
                      = hc_chunks[k - 1].position_in_page + 1

\* the headings without the one at index i
WithoutHeading(headings, i) ==
    SubSeq(headings, 1, i - 1) \o SubSeq(headings, i + 1, Len(headings))

\* the section boundaries and the text of every chunk of a result
BoundariesAndTexts(chunks) ==
    [k \in DOMAIN chunks |->
        <<chunks[k].start_pos, chunks[k].end_pos, chunks[k].text_content>>]

\* C19: a heading whose text does not occur in a page body raises no error
\* and gives no section: the section boundaries and the chunk texts are
\* those of the call without that heading in the list.
C19_MissingHeadingDropped ==
    (hc_pc \in {"done", "error"} /\ Strip(hc_text) # <<>>)
        => \A i \in DOMAIN hc_headings :
              Find(hc_text, hc_headings[i].text) < 0
                 => /\ hc_error = "none"
                    /\ BoundariesAndTexts(hc_chunks)
                          = BoundariesAndTexts(
                                ChunkText(hc_text,
                                          WithoutHeading(hc_headings, i),
                                          hc_max, hc_ov))


\* the fallback crawl ran and discover_urls returned
CrawlDone ==
    /\ du_pc = "done"
    /\ du_sitemap.status # "none"
    /\ SitemapUrls(du_sitemap.locs, du_base) = <<>>

\* the in-prefix links of a successfully fetched page, fragments and
\* query strings stripped
SiteTargets(u) ==
    UNION {{CleanUrl(l) : l \in {a \in p.links : StartsWith(a, du_base)}} :
              p \in {q \in PagesAt(u) : q.ok}}

RECURSIVE ReachFrom(_)
ReachFrom(R) ==
    LET N == R \cup UNION {SiteTargets(u) : u \in R}
    IN  IF N = R THEN R ELSE ReachFrom(N)

\* the URLs of the site whose fetch succeeds and that base_url reaches
ReachableFetched ==
    {u \in ReachFrom({du_base}) : \E p \in PagesAt(u) : p.ok}

\* C20: on a site whose answers are fixed the fallback crawl requests no
\* URL twice, ends, and returns exactly the successfully fetched URLs
\* base_url reaches through stripped in-prefix links of successfully
\* fetched pages, whatever the order of the visits and whichever fetches
\* fail.
C20_CrawlReturnsReachable ==
    /\ [](NoDuplicates(du_fetched)
            /\ (CrawlDone => Range(du_result) = ReachableFetched))
    /\ ((du_pc = "crawl") ~> CrawlDone)


\* the requests of the call in hand, or of a finished call
FetchRequestLists ==
    {fp_requests} \cup {fp_calls[i].requests : i \in DOMAIN fp_calls}

\* the pages whose call ended with a 4xx or 5xx answer
HttpFailedPages ==
    {i \in DOMAIN fp_calls :
        IsHttpError(fp_calls[i].requests[Len(fp_calls[i].requests)])}

\* C21: a call of fetch_and_parse sends at most 3 requests, sends a further
\* request only after a timeout, sends none after a 4xx or 5xx answer, and
\* main records a page whose fetch ended with such an answer as failed.
C21_RetryOnlyOnTimeout ==
    /\ \A r \in FetchRequestLists :
          /\ Len(r) <= 3
          /\ \A k \in 1..(Len(r) - 1) : r[k] = "timeout"
    /\ \A i \in HttpFailedPages :
          /\ fp_calls[i].raised = "HTTPError"
          /\ \E k \in DOMAIN fp_state.errors : fp_state.errors[k].url = i
    /\ fp_state.pages_failed
          = Cardinality({i \in DOMAIN fp_calls : fp_calls[i].raised # "none"})

C21_Witness ==
    /\ fp_pc = "done"
    /\ \E i \in HttpFailedPages : Len(fp_calls[i].requests) = 2
    /\ \E i \in DOMAIN fp_calls : fp_calls[i].raised = "RetryError"


\* the positions of the tokens a chunk holds
TokensOf(chunk) == chunk.lo..(chunk.hi - 1)

\* C27: for 0 <= overlap_tokens < max_tokens every chunk after the first
\* holds at least one token that the chunk before it does not hold.
C27_ChunkAddsNewToken ==
    (~ct_blank /\ ValidWindow) =>
        \A i \in 2..Len(ct_chunks) :
            ~(TokensOf(ct_chunks[i]) \subseteq TokensOf(ct_chunks[i - 1]))


\* the largest index of a heading of that level among hs[from..], 0 if none
LastOfLevel(hs, level, from) ==
    LET I == {i \in from..Len(hs) : hs[i].level = level}
    IN  IF I = {} THEN 0 ELSE CHOOSE i \in I : \A j \in I : j <= i

\* the latest h1, followed by the latest h2 seen since that h1, if any
LatestH1ThenH2(hs) ==
    LET i1 == LastOfLevel(hs, "h1", 1)
        i2 == LastOfLevel(hs, "h2", i1 + 1)
    IN  (IF i1 = 0 THEN <<>> ELSE <<hs[i1].text>>)
            \o (IF i2 = 0 THEN <<>> ELSE <<hs[i2].text>>)

\* C25: the heading_context of every chunk of a page with headings is, for
\* some heading of the list, the latest h1 up to that heading followed by
\* the latest h2 seen since that h1: at most two levels, never an h2 kept
\* under another h2.
C25_ContextLatestH1ThenH2 ==
    (hc_pc = "done" /\ hc_headings # <<>>)
        => \A k \in DOMAIN hc_chunks :
              \E i \in DOMAIN hc_headings :
                  hc_chunks[k].heading_context
                      = JoinContext(LatestH1ThenH2(SubSeq(hc_headings, 1, i)))


\* the positions at which the headings of the list are found in the text
LocatedAt == {Find(hc_text, hc_headings[i].text) : i \in DOMAIN hc_headings} \ {-1}

EarliestLocated == CHOOSE p \in LocatedAt : \A q \in LocatedAt : p <= q

\* C28: with headings given, every chunk holds text of the body that lies
\* after the earliest heading found in it; when no heading is found the
\* call returns no chunk and raises nothing, and main counts the page as
\* processed with zero chunks.
C28_OnlyTextAfterFirstHeading ==
    (hc_pc \in {"done", "counted"} /\ hc_headings # <<>> /\ hc_error = "none")
        => /\ \A k \in DOMAIN hc_chunks :
                 /\ LocatedAt # {}
                 /\ hc_chunks[k].start_pos > EarliestLocated
                 /\ Find(PySlice(hc_text, hc_chunks[k].start_pos,
                                 hc_chunks[k].end_pos),
                         hc_chunks[k].text_content) >= 0
           /\ LocatedAt = {} =>
                 /\ hc_chunks = <<>>
                 /\ hc_pc = "counted" =>
                       hc_page = [pages_processed |-> 1, pages_failed |-> 0,
                                  total_chunks_created |-> 0]

\* C28 witness: main has counted a page none of whose headings is found in
\* its body, which holds text.
C28_Witness ==
    /\ hc_pc = "counted"
    /\ hc_headings # <<>>
    /\ hc_error = "none"
    /\ LocatedAt = {}
    /\ Len(Strip(hc_text)) >= 2


\* C22: a call of generate_embeddings makes at most 5 attempts, and an
\* attempt is followed by another one only when the embedding API failed:
\* none follows a batch-size violation or a dimension mismatch.
C22_RetryOnlyTransient ==
    /\ Len(ge_attempts) <= 5
    /\ \A k \in DOMAIN ge_attempts :
          ge_attempts[k].kind \in {"batch_size", "dimension"}
              => /\ k = Len(ge_attempts)
                 /\ ge_pc # "attempt"

\* C23: a call that returned for a non-empty batch returned vectors of 1024
\* dimensions only; when the API answered any vector of another dimension
\* the call has not returned that answer and no point of the batch is
\* stored.
C23_AllVectorsChecked ==
    /\ \A i \in DOMAIN ge_embeddings : ge_embeddings[i] = 1024
    /\ \A k \in DOMAIN ge_attempts :
          (\E i \in DOMAIN ge_attempts[k].dims : ge_attempts[k].dims[i] # 1024)
              => /\ ge_attempts[k].kind = "dimension"
                 /\ ge_stored = 0


\* the calls of generate_embeddings made by main, in order
MainCalls == SelectSeq(ig_embed_calls, LAMBDA c : c.caller = "main")

\* the batches the batch loop of the run in hand has handled
BatchesHandled == ig_i \div BatchSize

\* the call main made for batch b of the run in hand
CallOfBatch(b) == MainCalls[Len(MainCalls) - BatchesHandled + b]

\* the chunk ids of batch b when there are n chunks
IdsOfBatch(b, n) == (96 * (b - 1))..(Min(96 * b, n) - 1)

\* the chunks of the batches among the first h that succeeded
RECURSIVE StoredBy(_)
StoredBy(h) ==
    IF h = 0 THEN 0
    ELSE StoredBy(h - 1)
            + (IF ig_outcomes[h] = "ok"
               THEN Cardinality(IdsOfBatch(h, Len(ig_all_chunks))) ELSE 0)

BatchErrors(b) ==
    {k \in DOMAIN ig_state.errors :
        ig_state.errors[k].kind = "batch" /\ ig_state.errors[k].ref = b}

\* C24: main hands all chunks to generate_embeddings in consecutive batches
\* of 96 in chunk-id order, the last one possibly smaller; a batch that
\* fails leaves one error carrying its batch number and adds nothing to
\* total_vectors_stored, and the batches after it are still handled.
C24_BatchesOf96FailuresIsolated ==
    ig_pc \in {"batches", "done"}
        => LET n == Len(ig_all_chunks)
           IN  /\ ig_pc = "done" => BatchesHandled = CeilDiv(n, 96)
               /\ Len(MainCalls) >= BatchesHandled
               /\ \A b \in 1..BatchesHandled :
                     /\ CallOfBatch(b).size = Min(96, n - 96 * (b - 1))
                     /\ IF ig_outcomes[b] = "ok"
                        THEN /\ BatchErrors(b) = {}
                             /\ IdsOfBatch(b, n) \subseteq {q.id : q \in ig_store}
                        ELSE /\ Cardinality(BatchErrors(b)) = 1
                             /\ ig_run = 1 =>
                                   IdsOfBatch(b, n) \cap {q.id : q \in ig_store} = {}
               /\ ig_state.total_vectors_stored = StoredBy(BatchesHandled)

\* C24 witness: the first batch of a run failed and the second, smaller
\* one was stored.
C24_Witness ==
    /\ ig_pc = "done"
    /\ ig_run = 1
    /\ BatchesHandled = 2
    /\ ig_outcomes[1] # "ok"
    /\ ig_outcomes[2] = "ok"
    /\ ig_state.total_vectors_stored = 1

\* the pages and the batches the run in hand has handled
PagesHandled == IF ig_pc = "pages" THEN ig_idx - 1 ELSE Len(ig_urls)

BatchesSoFar == IF ig_pc = "pages" THEN 0 ELSE BatchesHandled

PageErrors(j) ==
    {k \in DOMAIN ig_state.errors :
        ig_state.errors[k].kind # "batch" /\ ig_state.errors[k].ref = j}

\* C26: at every step of a run pages_processed + pages_failed is the number
\* of URLs handled (all discovered ones at the end), total_chunks_created
\* is the number of chunks collected from the processed pages,
\* total_vectors_stored is the size of the batches that succeeded and at
\* most total_chunks_created, and errors holds one entry for every failed
\* page and every failed batch and no other.
C26_CountersConsistent ==
    ig_pc \in {"pages", "batches", "done"}
        => LET failedPages == {j \in 1..PagesHandled : ig_site[j].kind # "ok"}
               failedBatches == {b \in 1..BatchesSoFar : ig_outcomes[b] # "ok"}
           IN  /\ ig_state.pages_processed + ig_state.pages_failed = PagesHandled
               /\ ig_state.pages_failed = Cardinality(failedPages)
               /\ ig_state.total_pages_discovered = Len(ig_urls)
               /\ ig_pc = "done" =>
                     ig_state.pages_processed + ig_state.pages_failed
                        = ig_state.total_pages_discovered
               /\ ig_state.total_chunks_created = Len(ig_all_chunks)
               /\ ig_state.total_chunks_created = ChunksOfPages(PagesHandled)
               /\ ig_state.total_vectors_stored <= ig_state.total_chunks_created
               /\ ig_state.total_vectors_stored = StoredBy(BatchesSoFar)
               /\ Len(ig_state.errors)
                     = Cardinality(failedPages) + Cardinality(failedBatches)
               /\ \A j \in failedPages : Cardinality(PageErrors(j)) = 1
               /\ \A b \in failedBatches : Cardinality(BatchErrors(b)) = 1

\* C26 witness: a finished run with a failed page, a processed page and a
\* failed batch.
C26_Witness ==
    /\ ig_pc = "done"
    /\ ig_state.pages_failed = 1
    /\ ig_state.pages_processed = 1
    /\ Len(ig_state.errors) = 2
    /\ ig_state.total_vectors_stored < ig_state.total_chunks_created

\* C29: when a run has ended without a failed batch the collection holds
\* the points of the chunks of that run and no other point.
C29_StoreHoldsLatestRunOnly ==
    (ig_pc = "done" /\ \A k \in DOMAIN ig_state.errors :
                           ig_state.errors[k].kind # "batch")
        => ig_store = {PointOf(ig_all_chunks[i]) : i \in DOMAIN ig_all_chunks}


-----------------------------------------------------------------------------
(* Claims about the conversation session *)

\* the turns request q has appended to the log of its session
AppendedTurns(q) ==
    {t \in Range(cs_logs[cs_req[q].session]) : t.request = q}

\* C30: every /chat request that runs the agent uses the session created at
\* startup, whoever sent it; the history replayed for a request holds the
\* turns every request appended before that run started, turns appended
\* by requests handled at the same time are in the same log, and no other
\* session holds a turn.
C30_OneSharedSession ==
    \A r \in DOMAIN cs_req :
        cs_req[r].pc \in {"running", "done", "failed"}
            => /\ cs_req[r].session = StartupSession
               /\ \A q \in DOMAIN cs_req :
                     (cs_req[q].appended > 0
                        /\ cs_req[q].appended < cs_req[r].started)
                        => /\ AppendedTurns(q) # {}
                           /\ AppendedTurns(q) \subseteq Range(cs_req[r].history)
               /\ cs_req[r].pc = "done"
                     => {Turn(r, "user"), Turn(r, "assistant")}
                            \subseteq Range(cs_logs[StartupSession])
               /\ \A s \in SessionIds \ {StartupSession} : cs_logs[s] = <<>>

\* C30 witness: two clients' requests ran at the same time and both have
\* appended their turns.
C30_Witness ==
    /\ cs_req[1].pc = "done"
    /\ cs_req[2].pc = "done"
    /\ cs_req[1].client # cs_req[2].client
    /\ cs_req[2].started < cs_req[1].appended
    /\ cs_req[1].started < cs_req[2].appended
    /\ Len(cs_logs[StartupSession]) = 4

=============================================================================
